---- MODULE Spec2Model ----
(***************************************************************************)
(* Model of the delegation chain of project-pathway:                       *)
(*   SupervisorAgent -> InsuranceAgent -> MedicaidSpecialistAgent ->       *)
(*   MoHealthNetAgent, SupervisorAgent -> BasicSearchAgent, and the        *)
(*   AgentDClient that talks to the automation backend.                    *)
(*                                                                         *)
(* Python values are tagged records [kind, val]; a text is a sequence of   *)
(* atoms (indivisible pieces of characters), so that concatenation,        *)
(* containment, split and strip are computed on the sequence.  The task    *)
(* state (a dict) is a record with one tagged value per key; kind          *)
(* "absent" stands for a key that is not in the dict.                      *)
(***************************************************************************)
EXTENDS Integers, Sequences, FiniteSets, TLC

VARIABLES
    config,     \* process environment read at construction time
    registry,   \* the three handler registries built by the constructors
    active,     \* the task invocations that run
    pc,         \* pc[t]: position of task t in the chain
    st,         \* st[t]: the task state dict of task t
    stack,      \* stack[t]: continuations of the callers waiting for a return
    exc,        \* exc[t]: the exception that is propagating, if any
    ret,        \* ret[t]: the value returned by the last client call
    cl,         \* cl[t]: the AgentDClient call in progress
    log         \* log[t]: history of what task t did (calls, requests, entries, returns)

vars == <<config, registry, active, pc, st, stack, exc, ret, cl, log>>

-----------------------------------------------------------------------------
(* Bounds *)

NumTasks == 2
MaxLines == 3

Tasks == 1..NumTasks

-----------------------------------------------------------------------------
(* Python values *)

Absent == [kind |-> "absent", val |-> <<>>]
None == [kind |-> "none", val |-> <<>>]
Txt(s) == [kind |-> "text", val |-> s]
Lst(s) == [kind |-> "list", val |-> s]
Num(n) == [kind |-> "num", val |-> n]
Dict(r) == [kind |-> "dict", val |-> r]

IsText(v) == v.kind = "text"

\* Python truthiness of the values the model uses
Truthy(v) ==
    CASE v.kind \in {"absent", "none"} -> FALSE
      [] v.kind \in {"text", "list"} -> Len(v.val) > 0
      [] v.kind = "num" -> v.val # 0
      [] OTHER -> TRUE

\* dict.get(key, default) on a task state
Get(state, key, default) ==
    IF state[key].kind = "absent" THEN default ELSE state[key]

\* str.lower() on the atoms that occur as routing keys
LowerAtom(a) ==
    CASE a = "SEARCH" -> "search"
      [] a = "Self" -> "self"
      [] a = "Search" -> "search"
      [] a = "MEDICAID" -> "medicaid"
      [] a = "Medicaid" -> "medicaid"
      [] a = "MoHealthNet" -> "mohealthnet"
      [] a = "MOHEALTHNET" -> "mohealthnet"
      [] a = "Aetna" -> "aetna"
      [] a = "Error" -> "error"
      [] a = "ERROR" -> "error"
      [] a = "INFO" -> "info"
      [] a = "Availity" -> "availity"
      [] OTHER -> a

Lower(s) == [i \in 1..Len(s) |-> LowerAtom(s[i])]

\* str.upper() on the atoms that occur as event types
UpperAtom(a) ==
    CASE a = "info" -> "INFO"
      [] a = "Error" -> "ERROR"
      [] a = "error" -> "ERROR"
      [] OTHER -> a

Upper(s) == [i \in 1..Len(s) |-> UpperAtom(s[i])]

\* exceptions: str(e) is msg
NoExc == [type |-> "none", msg |-> <<>>]
Exc(type, msg) == [type |-> type, msg |-> msg]

-----------------------------------------------------------------------------
(* Text operations used by InsuranceAgent.execute *)

Marker == "DOB:"
Space == " "

\* "DOB:" in query
Contains(s, a) == \E i \in 1..Len(s) : s[i] = a

FirstIndex(s, a) == CHOOSE i \in 1..Len(s) : s[i] = a /\ \A j \in 1..(i - 1) : s[j] # a

\* query.split("DOB:")[0]
SplitPart0(s) == SubSeq(s, 1, FirstIndex(s, Marker) - 1)

\* query.split("DOB:")[1]: up to the next marker, or to the end
SplitPart1(s) ==
    LET rest == SubSeq(s, FirstIndex(s, Marker) + 1, Len(s))
    IN  IF Contains(rest, Marker) THEN SubSeq(rest, 1, FirstIndex(rest, Marker) - 1) ELSE rest

RECURSIVE LStrip(_)
LStrip(s) == IF s # <<>> /\ Head(s) = Space THEN LStrip(Tail(s)) ELSE s

RECURSIVE RStrip(_)
RStrip(s) == IF s # <<>> /\ s[Len(s)] = Space THEN RStrip(SubSeq(s, 1, Len(s) - 1)) ELSE s

\* str.strip()
Strip(s) == LStrip(RStrip(s))

\* str.split(): the maximal runs of non-whitespace, each a text
RECURSIVE Tokens(_, _, _)
Tokens(s, cur, acc) ==
    IF s = <<>> THEN (IF cur = <<>> THEN acc ELSE Append(acc, cur))
    ELSE IF Head(s) = Space
         THEN Tokens(Tail(s), <<>>, IF cur = <<>> THEN acc ELSE Append(acc, cur))
         ELSE Tokens(Tail(s), Append(cur, Head(s)), acc)

Split(s) == Tokens(s, <<>>, <<>>)

-----------------------------------------------------------------------------
(* The task state *)

StateKeys == {"query", "insurance_type", "portal_name", "patient_info", "plan",
              "search_results", "portal_response", "error", "reasoning", "response",
              "transaction_id", "timestamp"}

BlankState == [k \in StateKeys |-> Absent]

Set(state, key, value) == [state EXCEPT ![key] = value]

\* every key but those of `keys` has the same value in a and b
SameExcept(a, b, keys) == \A k \in StateKeys \ keys : a[k] = b[k]

-----------------------------------------------------------------------------
(* History *)

Event(ev, who, state, info) == [ev |-> ev, who |-> who, st |-> state, info |-> info]

\* an exception as a history entry: its type, then str(e)
ExcInfo(e) == [kind |-> "text", val |-> <<e.type>> \o e.msg]

Count(h, ev, who) == Cardinality({i \in 1..Len(h) : h[i].ev = ev /\ h[i].who = who})

CountEv(h, ev) == Cardinality({i \in 1..Len(h) : h[i].ev = ev})

-----------------------------------------------------------------------------
(* Planner: SupervisorAgent.plan_task *)

W(a) == Txt(<<a>>)

Plan3(agent, reasoning, instructions) ==
    Dict([agent |-> agent, reasoning |-> reasoning, instructions |-> instructions])

\* dict.get(key, default) on a plan
PlanGet(plan, key, default) ==
    IF plan.val[key].kind = "absent" THEN default ELSE plan.val[key]

JaneDoeQuery == <<"Jane", Space, "Doe", Space, Marker, Space, "01/01/1990">>
NoNameQuery == <<Marker, Space, "none", Space, "provided">>
NoMarkerQuery == <<"check", Space, "eligibility">>
MiddleNameQuery == <<"Mary", Space, "Ann", Space, Space, "Smith", Space, Marker,
                     Space, Space, "Jan", Space, "1990", Space>>
SingleNameQuery == <<"Cher", Marker, "03/03/1946">>

\* ast.literal_eval on the texts the model call returns: the value the literal
\* denotes, or a failure (SyntaxError / ValueError)
LiteralEval(src) ==
    CASE src = <<"{'agent': 'self', 'reasoning': 'direct', 'instructions': 'answer'}">> ->
            [ok |-> TRUE, value |-> Plan3(W("self"), W("direct"), W("answer"))]
      [] src = <<"{'agent': 'search', 'reasoning': 'web', 'instructions': 'cats'}">> ->
            [ok |-> TRUE, value |-> Plan3(W("search"), W("web"), W("cats"))]
      [] src = <<"{'agent': 'SEARCH', 'reasoning': 'web', 'instructions': 'cats'}">> ->
            [ok |-> TRUE, value |-> Plan3(W("SEARCH"), W("web"), W("cats"))]
      [] src = <<"{'agent': 'search', 'reasoning': 'web'}">> ->
            [ok |-> TRUE, value |-> Plan3(W("search"), W("web"), Absent)]
      [] src = <<"{'agent': 'insurance', 'reasoning': 'elig', 'instructions': 'Jane Doe DOB: 01/01/1990'}">> ->
            [ok |-> TRUE, value |-> Plan3(W("insurance"), W("elig"), Txt(JaneDoeQuery))]
      [] src = <<"{'agent': 'insurance', 'reasoning': 'elig', 'instructions': 'DOB: none provided'}">> ->
            [ok |-> TRUE, value |-> Plan3(W("insurance"), W("elig"), Txt(NoNameQuery))]
      [] src = <<"{'agent': 'insurance', 'reasoning': 'elig', 'instructions': 'check eligibility'}">> ->
            [ok |-> TRUE, value |-> Plan3(W("insurance"), W("elig"), Txt(NoMarkerQuery))]
      [] src = <<"{'agent': 'billing', 'reasoning': 'bill', 'instructions': 'invoice'}">> ->
            [ok |-> TRUE, value |-> Plan3(W("billing"), W("bill"), W("invoice"))]
      [] src = <<"{'reasoning': 'none', 'instructions': 'answer'}">> ->
            [ok |-> TRUE, value |-> Plan3(Absent, W("none"), W("answer"))]
      [] src = <<"{'agent': 5, 'reasoning': 'web', 'instructions': 'cats'}">> ->
            [ok |-> TRUE, value |-> Plan3(Num(5), W("web"), W("cats"))]
      [] src = <<"42">> -> [ok |-> TRUE, value |-> Num(42)]
      [] src = <<"['search', 'cats']">> -> [ok |-> TRUE, value |-> Lst(<<"search", "cats">>)]
      [] OTHER -> [ok |-> FALSE, value |-> Absent]

PlanTexts ==
    { <<"{'agent': 'self', 'reasoning': 'direct', 'instructions': 'answer'}">>,
      <<"{'agent': 'search', 'reasoning': 'web', 'instructions': 'cats'}">>,
      <<"{'agent': 'SEARCH', 'reasoning': 'web', 'instructions': 'cats'}">>,
      <<"{'agent': 'search', 'reasoning': 'web'}">>,
      <<"{'agent': 'insurance', 'reasoning': 'elig', 'instructions': 'Jane Doe DOB: 01/01/1990'}">>,
      <<"{'agent': 'insurance', 'reasoning': 'elig', 'instructions': 'DOB: none provided'}">>,
      <<"{'agent': 'insurance', 'reasoning': 'elig', 'instructions': 'check eligibility'}">>,
      <<"{'agent': 'billing', 'reasoning': 'bill', 'instructions': 'invoice'}">>,
      <<"{'reasoning': 'none', 'instructions': 'answer'}">>,
      <<"{'agent': 5, 'reasoning': 'web', 'instructions': 'cats'}">>,
      <<"42">>,
      <<"['search', 'cats']">>,
      <<"I would use the search agent">>,
      <<"{\"agent\": \"search\", \"reasoning\": null, \"instructions\": \"cats\"}">> }

\* what chain.invoke does: it raises, or returns a message whose content is a
\* text or a native value (a list of content blocks)
PlannerOutcomes ==
    {[raises |-> TRUE, content |-> Absent]}
    \cup {[raises |-> FALSE, content |-> Txt(src)] : src \in PlanTexts}
    \cup {[raises |-> FALSE, content |-> Lst(<<"block">>)]}

FallbackPlan ==
    Plan3(W("self"),
          W("Error occurred during planning, handling directly"),
          W("I apologize, but I encountered an error while processing your request. Here are the available agents and their capabilities:\n- search: Can perform Google searches and return results\n- insurance: Handles insurance-related tasks and delegates to specialist agents"))

\* a plan_task that lets the parse error of literal_eval out
PlanTask_PropagatesParseError(o) ==
    IF o.raises
    THEN [raised |-> TRUE, e |-> Exc("APIConnectionError", <<"Connection error.">>), plan |-> Absent]
    ELSE IF IsText(o.content)
         THEN LET r == LiteralEval(o.content.val)
              IN  IF r.ok THEN [raised |-> FALSE, e |-> NoExc, plan |-> r.value]
                  ELSE [raised |-> TRUE, e |-> Exc("SyntaxError", <<"invalid syntax">>),
                        plan |-> Absent]
         ELSE [raised |-> FALSE, e |-> NoExc, plan |-> o.content]

\* plan_task: [raised, e, plan]
PlanTask(o) ==
    IF o.raises
    THEN [raised |-> TRUE, e |-> Exc("APIConnectionError", <<"Connection error.">>), plan |-> Absent]
    ELSE IF IsText(o.content)
         THEN LET r == LiteralEval(o.content.val)
              IN  [raised |-> FALSE, e |-> NoExc,
                   plan |-> IF r.ok THEN r.value ELSE FallbackPlan]
         ELSE [raised |-> FALSE, e |-> NoExc, plan |-> o.content]

\* the shape section 3 of the design gives a DelegationPlan
WellFormedPlan(p) ==
    /\ p.kind = "dict"
    /\ \A k \in {"agent", "reasoning", "instructions"} : IsText(p.val[k])

-----------------------------------------------------------------------------
(* Outcomes of a stage's code up to its next call or its return:            *)
(*   [kind |-> "return" | "raise" | "call", st, e, child]                   *)

Returns(state) == [kind |-> "return", st |-> state, e |-> NoExc, child |-> "none"]
Raises(state, e) == [kind |-> "raise", st |-> state, e |-> e, child |-> "none"]
Calls(state, child) == [kind |-> "call", st |-> state, e |-> NoExc, child |-> child]

\* a supervisor that delegates without handing the instructions down
SupervisorDispatch_KeepsQuery(state, r, agents) ==
    LET s1 == Set(state, "plan", r.plan)
    IN  IF r.raised THEN Raises(state, r.e)
        ELSE IF r.plan.kind # "dict"
        THEN Raises(s1, Exc("AttributeError", <<"object has no attribute 'get'">>))
        ELSE LET agent == PlanGet(r.plan, "agent", Txt(<<>>))
             IN  IF ~IsText(agent)
                 THEN Raises(s1, Exc("AttributeError", <<"object has no attribute 'lower'">>))
                 ELSE LET agent_name == Lower(agent.val)
                      IN  IF agent_name = <<"self">>
                          THEN Returns(Set(s1, "response", PlanGet(r.plan, "instructions", Txt(<<>>))))
                          ELSE IF agent_name \in DOMAIN agents
                          THEN Calls(s1, agents[agent_name])
                          ELSE Returns(Set(s1, "error",
                                   Txt(<<"Unknown or unsupported agent: ">> \o agent_name)))

\* a supervisor that overwrites the query on every branch, "self" included
SupervisorDispatch_SelfOverwritesQuery(state, r, agents) ==
    LET query == Get(state, "query", Txt(<<>>))
        s1 == Set(state, "plan", r.plan)
    IN  IF r.raised THEN Raises(state, r.e)
        ELSE IF r.plan.kind # "dict"
        THEN Raises(s1, Exc("AttributeError", <<"object has no attribute 'get'">>))
        ELSE LET agent == PlanGet(r.plan, "agent", Txt(<<>>))
                 s2 == Set(s1, "query", PlanGet(r.plan, "instructions", query))
             IN  IF ~IsText(agent)
                 THEN Raises(s1, Exc("AttributeError", <<"object has no attribute 'lower'">>))
                 ELSE LET agent_name == Lower(agent.val)
                      IN  IF agent_name = <<"self">>
                          THEN Returns(Set(s2, "response", PlanGet(r.plan, "instructions", Txt(<<>>))))
                          ELSE IF agent_name \in DOMAIN agents
                          THEN Calls(s2, agents[agent_name])
                          ELSE Returns(Set(s2, "error",
                                   Txt(<<"Unknown or unsupported agent: ">> \o agent_name)))

\* a supervisor that answers by itself whenever the agent is not registered
SupervisorDispatch_UnknownAsSelf(state, r, agents) ==
    LET query == Get(state, "query", Txt(<<>>))
        s1 == Set(state, "plan", r.plan)
    IN  IF r.raised THEN Raises(state, r.e)
        ELSE IF r.plan.kind # "dict"
        THEN Raises(s1, Exc("AttributeError", <<"object has no attribute 'get'">>))
        ELSE LET agent == PlanGet(r.plan, "agent", Txt(<<>>))
             IN  IF ~IsText(agent)
                 THEN Raises(s1, Exc("AttributeError", <<"object has no attribute 'lower'">>))
                 ELSE LET agent_name == Lower(agent.val)
                      IN  IF agent_name \in DOMAIN agents
                          THEN Calls(Set(s1, "query", PlanGet(r.plan, "instructions", query)),
                                     agents[agent_name])
                          ELSE Returns(Set(s1, "response", PlanGet(r.plan, "instructions", Txt(<<>>))))

\* a supervisor that stores the plan only when it delegates
SupervisorDispatch_PlanOnlyOnDelegate(state, r, agents) ==
    LET query == Get(state, "query", Txt(<<>>))
        s1 == Set(state, "plan", r.plan)
    IN  IF r.raised THEN Raises(state, r.e)
        ELSE IF r.plan.kind # "dict"
        THEN Raises(s1, Exc("AttributeError", <<"object has no attribute 'get'">>))
        ELSE LET agent == PlanGet(r.plan, "agent", Txt(<<>>))
             IN  IF ~IsText(agent)
                 THEN Raises(s1, Exc("AttributeError", <<"object has no attribute 'lower'">>))
                 ELSE LET agent_name == Lower(agent.val)
                      IN  IF agent_name = <<"self">>
                          THEN Returns(Set(state, "response", PlanGet(r.plan, "instructions", Txt(<<>>))))
                          ELSE IF agent_name \in DOMAIN agents
                          THEN Calls(Set(s1, "query", PlanGet(r.plan, "instructions", query)),
                                     agents[agent_name])
                          ELSE Returns(Set(state, "error",
                                   Txt(<<"Unknown or unsupported agent: ">> \o agent_name)))

\* SupervisorAgent.execute, lines 125-166 and 180-192, after plan_task returned r
SupervisorDispatch(state, r, agents) ==
    LET query == Get(state, "query", Txt(<<>>))
        s1 == Set(state, "plan", r.plan)
    IN  IF r.raised THEN Raises(state, r.e)
        ELSE IF r.plan.kind # "dict"
        THEN Raises(s1, Exc("AttributeError", <<"object has no attribute 'get'">>))
        ELSE LET agent == PlanGet(r.plan, "agent", Txt(<<>>))
             IN  IF ~IsText(agent)
                 THEN Raises(s1, Exc("AttributeError", <<"object has no attribute 'lower'">>))
                 ELSE LET agent_name == Lower(agent.val)
                      IN  IF agent_name = <<"self">>
                          THEN Returns(Set(s1, "response", PlanGet(r.plan, "instructions", Txt(<<>>))))
                          ELSE IF agent_name \in DOMAIN agents
                          THEN Calls(Set(s1, "query", PlanGet(r.plan, "instructions", query)),
                                     agents[agent_name])
                          ELSE Returns(Set(s1, "error",
                                   Txt(<<"Unknown or unsupported agent: ">> \o agent_name)))

\* a stamp that keeps a reasoning the state already carries
SupervisorStampState_KeepsExisting(state, plan) ==
    IF state.reasoning.kind = "absent"
    THEN Set(state, "reasoning", PlanGet(plan, "reasoning", Txt(<<>>)))
    ELSE state

\* SupervisorAgent.execute, line 167
SupervisorStampState(state, plan) ==
    Set(state, "reasoning", PlanGet(plan, "reasoning", Txt(<<>>)))

-----------------------------------------------------------------------------
(* Routers *)

\* a parse that takes the second token for the last name
ParsePatientInfo_SecondTokenLast(state) ==
    LET query == Get(state, "query", Txt(<<>>)).val
    IN  IF ~Contains(query, Marker) THEN Returns(state)
        ELSE LET name_part == Strip(SplitPart0(query))
                 dob_part == Strip(SplitPart1(query))
                 tokens == Split(name_part)
             IN  IF tokens = <<>>
                 THEN Raises(state, Exc("IndexError", <<"list index out of range">>))
                 ELSE Returns(Set(state, "patient_info",
                          Dict([first_name |-> Txt(tokens[1]),
                                last_name |-> Txt(tokens[IF Len(tokens) > 1 THEN 2 ELSE 1]),
                                dob |-> Txt(dob_part)])))

\* InsuranceAgent.execute, lines 31-41: the patient-info parse
ParsePatientInfo(state) ==
    LET query == Get(state, "query", Txt(<<>>)).val
    IN  IF ~Contains(query, Marker) THEN Returns(state)
        ELSE LET name_part == Strip(SplitPart0(query))
                 dob_part == Strip(SplitPart1(query))
                 tokens == Split(name_part)
             IN  IF tokens = <<>>
                 THEN Raises(state, Exc("IndexError", <<"list index out of range">>))
                 ELSE Returns(Set(state, "patient_info",
                          Dict([first_name |-> Txt(tokens[1]),
                                last_name |-> Txt(tokens[Len(tokens)]),
                                dob |-> Txt(dob_part)])))

\* a lookup that compares the key as it was given
InsuranceRoute_CaseSensitive(state, specialists) ==
    LET insurance_type == Get(state, "insurance_type", W("medicaid")).val
    IN  IF insurance_type \in DOMAIN specialists
        THEN Calls(state, specialists[insurance_type])
        ELSE Returns(Set(state, "error", Txt(<<"Unknown insurance type: ">> \o insurance_type)))

\* InsuranceAgent.execute, lines 54-81
InsuranceRoute(state, specialists) ==
    LET insurance_type == Lower(Get(state, "insurance_type", W("medicaid")).val)
    IN  IF insurance_type \in DOMAIN specialists
        THEN Calls(state, specialists[insurance_type])
        ELSE Returns(Set(state, "error", Txt(<<"Unknown insurance type: ">> \o insurance_type)))

\* a router that looks the key up first and parses the query only when it
\* is about to delegate
InsuranceExecute_RoutesFirst(state, specialists) ==
    LET r == InsuranceRoute(state, specialists)
        p == ParsePatientInfo(state)
    IN  IF r.kind = "return" THEN r
        ELSE IF p.kind = "raise" THEN p ELSE InsuranceRoute(p.st, specialists)

\* InsuranceAgent.execute
InsuranceExecute(state, specialists) ==
    LET p == ParsePatientInfo(state)
    IN  IF p.kind = "raise" THEN p ELSE InsuranceRoute(p.st, specialists)

\* a router that stores the normalised key back into the state
MedicaidExecute_NormalisesKey(state, portal_agents) ==
    LET portal_name == Lower(Get(state, "portal_name", W("mohealthnet")).val)
        s1 == Set(state, "portal_name", Txt(portal_name))
    IN  IF portal_name \in DOMAIN portal_agents
        THEN Calls(s1, portal_agents[portal_name])
        ELSE Returns(Set(s1, "error", Txt(<<"Unknown portal: ">> \o portal_name)))

\* MedicaidSpecialistAgent.execute
MedicaidExecute(state, portal_agents) ==
    LET portal_name == Lower(Get(state, "portal_name", W("mohealthnet")).val)
    IN  IF portal_name \in DOMAIN portal_agents
        THEN Calls(state, portal_agents[portal_name])
        ELSE Returns(Set(state, "error", Txt(<<"Unknown portal: ">> \o portal_name)))

-----------------------------------------------------------------------------
(* Credentials and the AgentDClient *)

\* a lookup that hands back whatever the environment holds
GetCredentials_NoCheck(cfg) ==
    [ok |-> TRUE, e |-> NoExc, username |-> cfg.username, password |-> cfg.password]

\* CredentialManager.get_credentials
GetCredentials(cfg) ==
    IF ~Truthy(cfg.username) \/ ~Truthy(cfg.password)
    THEN [ok |-> FALSE, e |-> Exc("ValueError", <<"Missing credentials for ", "EMOMED">>),
          username |-> None, password |-> None]
    ELSE [ok |-> TRUE, e |-> NoExc, username |-> cfg.username, password |-> cfg.password]

\* what the backend does with one request: it answers, or the transport fails
TransportCauses == {"Connection refused", "Read timed out", "500 Server Error"}
BrokenStream == "Connection broken: IncompleteRead"

\* AgentDClient.set_credentials: the request it sends and how the call ends,
\* given the backend's answer (cause = "" when the request succeeds)
SetCredentials(secret, username, password, cause) ==
    [payload |-> Dict([username |-> username, password |-> password, client_secret |-> secret]),
     e |-> IF cause = "" THEN NoExc
           ELSE Exc("ConnectionError", <<"Failed to set credentials: ", cause>>)]

\* the keyword arguments AgentDClient.execute_command accepts besides command
ExecuteCommandKeywords == {}

\* raw response lines (bytes); "\\xff" is a byte that is not valid UTF-8
BadByte == "\\xff"
LineSet == { <<>>,
             <<"data: ", "{\"message\": \"hi\", \"type\": \"error\"}">>,
             <<"plain text">>,
             <<BadByte>> }

RECURSIVE SeqsUpTo(_, _)
SeqsUpTo(S, n) ==
    IF n = 0 THEN {<<>>}
    ELSE LET shorter == SeqsUpTo(S, n - 1)
         IN  shorter \cup {Append(q, x) : q \in {r \in shorter : Len(r) = n - 1}, x \in S}

Streams == SeqsUpTo(LineSet, MaxLines)

\* bytes.decode('utf-8')
Decode(line) ==
    IF Contains(line, BadByte)
    THEN [ok |-> FALSE, text |-> <<>>]
    ELSE [ok |-> TRUE, text |-> line]

DecodeError == Exc("UnicodeDecodeError", <<"'utf-8' codec can't decode byte">>)

\* the loop body without its `if line:` guard
AppendLine_NoGuard(result, line) == result \o Decode(line).text \o <<"\n">>

\* one iteration of the loop of execute_command (lines 26-29) on the buffer
AppendLine(result, line) ==
    IF line = <<>> THEN result ELSE result \o Decode(line).text \o <<"\n">>

\* a call of the client: its arguments, the response body the backend sends
\* (body), what of it is still to be read (stream), whether the connection
\* breaks after the body, and the buffer `result`
NoCall == [kwargs |-> {}, command |-> <<>>, args |-> <<>>, body |-> <<>>, stream |-> <<>>,
           broken |-> FALSE, result |-> <<>>]

CommandCall(command, kwargs) == [NoCall EXCEPT !.command = command, !.kwargs = kwargs]

MoHealthNetCommand == <<"1. Navigate to https://www.emomed.com/portal/wps/myportal ...">>

SearchCommand(query) == <<"Navigate to google.com and search for: ">> \o query

-----------------------------------------------------------------------------
(* The print_stream closures of the two handlers: the per-line parse and    *)
(* fold step they hand to execute_command as `callback`                     *)

MaxFold == 2

Prefix == "data: "

\* the pieces of the text of a JSON object with a message and a type
MsgOpen == "{\"message\": \""
TypeSep == "\", \"type\": \""
ObjClose == "\"}"

\* the line 'data: {"message": m, "type": t}', without the type when t = ""
DataLine(m, t) ==
    <<Prefix, MsgOpen>> \o m \o (IF t = "" THEN <<ObjClose>> ELSE <<TypeSep, t, ObjClose>>)

\* line.replace('data: ', ''): every occurrence goes, not the leading one only
RECURSIVE Replace(_)
Replace(line) ==
    IF line = <<>> THEN <<>>
    ELSE (IF Head(line) = Prefix THEN <<>> ELSE <<Head(line)>>) \o Replace(Tail(line))

JsonObject(message, type, error, status_code) ==
    Dict([message |-> message, type |-> type, error |-> error, status_code |-> status_code])

\* json.loads: the value the text denotes, or a failure (JSONDecodeError)
JsonLoads(text) ==
    IF Len(text) >= 2 /\ text[1] = MsgOpen /\ text[Len(text)] = ObjClose
    THEN IF Len(text) >= 4 /\ text[Len(text) - 2] = TypeSep
         THEN [ok |-> TRUE,
               value |-> JsonObject(Txt(SubSeq(text, 2, Len(text) - 3)),
                                    Txt(<<text[Len(text) - 1]>>), Absent, Absent)]
         ELSE [ok |-> TRUE,
               value |-> JsonObject(Txt(SubSeq(text, 2, Len(text) - 1)), Absent, Absent, Absent)]
    ELSE CASE text = <<"42">> -> [ok |-> TRUE, value |-> Num(42)]
           [] text = <<"\"done\"">> -> [ok |-> TRUE, value |-> Txt(<<"done">>)]
           [] text = <<"[1, 2]">> -> [ok |-> TRUE, value |-> Lst(<<1, 2>>)]
           [] text = <<"null">> -> [ok |-> TRUE, value |-> None]
           [] text = <<"{\"status_code\": 500, \"error\": \"boom\"}">> ->
                 [ok |-> TRUE, value |-> JsonObject(Absent, Absent, W("boom"), Num(500))]
           [] text = <<"{\"message\": \"hi\", \"type\": 5}">> ->
                 [ok |-> TRUE, value |-> JsonObject(W("hi"), Num(5), Absent, Absent)]
           [] OTHER -> [ok |-> FALSE, value |-> Absent]

\* how one call of print_stream ends: [raised, e, st, emit]; emit holds the
\* "[TYPE] message" record it logs, if it logs one
Folded(state, emit) == [raised |-> FALSE, e |-> NoExc, st |-> state, emit |-> emit]
FoldRaises(state, e) == [raised |-> TRUE, e |-> e, st |-> state, emit |-> <<>>]

Emitted(data) ==
    <<[type |-> Txt(Upper(PlanGet(data, "type", W("info")).val)), message |-> data.val.message]>>

\* BasicSearchAgent.execute.print_stream (lines 27-78)
SearchPrintStream(state, line) ==
    LET r == JsonLoads(Replace(line))
        data == r.value
    IN  IF ~r.ok THEN Folded(state, <<>>)
        ELSE IF data.kind \in {"num", "none"}
        THEN FoldRaises(state, Exc("TypeError", <<"argument of type is not iterable">>))
        ELSE IF data.kind # "dict"
        THEN FoldRaises(state, Exc("AttributeError", <<"object has no attribute 'get'">>))
        ELSE IF data.val.message.kind = "absent" THEN Folded(state, <<>>)
        ELSE LET s1 == Set(state, "search_results",
                           Lst(Append(state.search_results.val, data.val.message.val)))
             IN  IF ~IsText(PlanGet(data, "type", W("info")))
                 THEN FoldRaises(s1, Exc("AttributeError", <<"object has no attribute 'upper'">>))
                 ELSE Folded(s1, Emitted(data))

\* MoHealthNetAgent.execute.print_stream (lines 21-72)
MoPrintStream(state, line) ==
    LET r == JsonLoads(Replace(line))
        data == r.value
    IN  IF ~r.ok THEN Folded(state, <<>>)
        ELSE IF data.kind # "dict"
        THEN FoldRaises(state, Exc("AttributeError", <<"object has no attribute 'get'">>))
        ELSE IF data.val.message.kind = "absent" THEN Folded(state, <<>>)
        ELSE IF ~IsText(PlanGet(data, "type", W("info")))
        THEN FoldRaises(state, Exc("AttributeError", <<"object has no attribute 'upper'">>))
        ELSE Folded(state, Emitted(data))

\* the messages, types and lines print_stream is applied to
FoldMessages == {<<"hi">>, <<"see ", Prefix, "here">>}
FoldTypes == {"", "Error", "info"}

FoldLines ==
    {DataLine(m, ty) : m \in FoldMessages, ty \in FoldTypes}
    \cup { <<"plain text">>,
           <<Prefix, MsgOpen, "hi">>,
           <<Prefix, "42">>,
           <<Prefix, "\"done\"">>,
           <<Prefix, "[1, 2]">>,
           <<Prefix, "null">>,
           <<Prefix, "{\"status_code\": 500, \"error\": \"boom\"}">>,
           <<Prefix, "{\"message\": \"hi\", \"type\": 5}">>,
           <<MsgOpen, "hi", ObjClose>> }

-----------------------------------------------------------------------------
(* Inputs *)

OldPatientInfo == Dict([first_name |-> W("Old"), last_name |-> W("Name"), dob |-> W("12/12/1980")])

QueryInputs == {Absent, W("cats"), Txt(JaneDoeQuery), Txt(NoNameQuery), Txt(NoMarkerQuery),
                Txt(MiddleNameQuery), Txt(SingleNameQuery)}

InputStates ==
    { [BlankState EXCEPT !.query = q, !.insurance_type = it, !.portal_name = pn,
                         !.error = er, !.patient_info = pi, !.search_results = sr,
                         !.reasoning = re] :
        q \in QueryInputs,
        it \in {Absent, W("MEDICAID"), W("Aetna")},
        pn \in {Absent, W("MoHealthNet"), W("Availity")},
        er \in {Absent, None, W("boom")},
        pi \in {Absent, OldPatientInfo},
        sr \in {Absent, Txt(<<>>)},
        re \in {Absent, W("stale")} }
    \cup { [BlankState EXCEPT !.query = q, !.patient_info = Dict(<<>>)] :
             q \in {Txt(NoMarkerQuery), Txt(JaneDoeQuery)} }

Configs ==
    { [client_secret |-> cs, username |-> c[1], password |-> c[2]] :
        cs \in {None, W("s3cret")},
        c \in {<<W("user"), W("pw")>>, <<None, W("pw")>>, <<W("user"), Txt(<<>>)>>} }

StageEntries == {"sup", "ins", "med", "mo", "srch"}
ClientEntries == {"cl_call", "cl_setcreds"}

Registries ==
    [available_agents |-> (<<"search">> :> "srch" @@ <<"insurance">> :> "ins"),
     specialists |-> (<<"medicaid">> :> "med"),
     portal_agents |-> (<<"mohealthnet">> :> "mo")]

-----------------------------------------------------------------------------
(* Initial states: the constructors have run, each active task is about to  *)
(* enter one operation with an input state                                  *)

CallInputs ==
    {CommandCall(<<"do it">>, kw) : kw \in {{}, {"callback"}}}

CredentialInputs ==
    {[NoCall EXCEPT !.args = a] : a \in {<<W("user"), W("pw")>>, <<W("other"), Txt(<<>>)>>}}

TaskInputs ==
    {[pc |-> e, st |-> s, cl |-> NoCall] : e \in StageEntries, s \in InputStates}
    \cup {[pc |-> "cl_call", st |-> BlankState, cl |-> c] : c \in CallInputs}
    \cup {[pc |-> "cl_setcreds", st |-> BlankState, cl |-> c] : c \in CredentialInputs}

IdleInput == [pc |-> "off", st |-> BlankState, cl |-> NoCall]

InitWith(tasks) ==
    /\ config \in Configs
    /\ registry = Registries
    /\ active = tasks
    /\ \E f \in [tasks -> TaskInputs] :
          LET in(t) == IF t \in tasks THEN f[t] ELSE IdleInput
          IN  /\ pc = [t \in Tasks |-> in(t).pc]
              /\ st = [t \in Tasks |-> in(t).st]
              /\ cl = [t \in Tasks |-> in(t).cl]
    /\ stack = [t \in Tasks |-> IF t \in tasks THEN <<"top">> ELSE <<>>]
    /\ exc = [t \in Tasks |-> NoExc]
    /\ ret = [t \in Tasks |-> Absent]
    /\ log = [t \in Tasks |-> <<>>]

Init == InitWith({1})

-----------------------------------------------------------------------------
(* Steps *)

\* a step that writes the one state record every task shares
Step_SharedState(t, p, s, k, e, r, c, evs) ==
    /\ pc' = [pc EXCEPT ![t] = p]
    /\ st' = [u \in Tasks |-> IF u \in active THEN s ELSE st[u]]
    /\ stack' = [stack EXCEPT ![t] = k]
    /\ exc' = [exc EXCEPT ![t] = e]
    /\ ret' = [ret EXCEPT ![t] = r]
    /\ cl' = [cl EXCEPT ![t] = c]
    /\ log' = [log EXCEPT ![t] = @ \o evs]
    /\ UNCHANGED <<config, registry, active>>

\* one step of task t: it writes its own position, state record, stack and
\* call, and nothing of another task or of the registries
Step(t, p, s, k, e, r, c, evs) ==
    /\ pc' = [pc EXCEPT ![t] = p]
    /\ st' = [st EXCEPT ![t] = s]
    /\ stack' = [stack EXCEPT ![t] = k]
    /\ exc' = [exc EXCEPT ![t] = e]
    /\ ret' = [ret EXCEPT ![t] = r]
    /\ cl' = [cl EXCEPT ![t] = c]
    /\ log' = [log EXCEPT ![t] = @ \o evs]
    /\ UNCHANGED <<config, registry, active>>

Front(k) == SubSeq(k, 1, Len(k) - 1)

\* where control goes when a call returns or raises into the frame fr
Resume(fr, e) == IF fr = "top" THEN (IF e = NoExc THEN "done" ELSE "raised") ELSE fr

\* the running operation returns value r, or raises e, to its caller
Leave(t, s, e, r, c, evs) ==
    Step(t, Resume(stack[t][Len(stack[t])], e), s, Front(stack[t]), e, r, c, evs)

\* a stage `who` ends its code with outcome o; `cont` is where it continues
\* when the child it calls comes back
Apply(t, who, o, cont, evs) ==
    CASE o.kind = "return" ->
            Leave(t, o.st, NoExc, ret[t], cl[t], evs \o <<Event("return", who, o.st, Absent)>>)
      [] o.kind = "raise" ->
            Leave(t, o.st, o.e, ret[t], cl[t], evs \o <<Event("raise", who, o.st, ExcInfo(o.e))>>)
      [] o.kind = "call" ->
            Step(t, o.child, o.st, Append(stack[t], cont), NoExc, ret[t], cl[t],
                 evs \o <<Event("call", who, o.st, W(o.child))>>)

\* SupervisorAgent.execute up to the delegation (lines 123-166, 180-192)
SupervisorExecute(t) ==
    /\ pc[t] = "sup"
    /\ \E o \in PlannerOutcomes :
       \E p \in {PlanTask(o)} :
       \E d \in {SupervisorDispatch(st[t], p, registry.available_agents)} :
          Apply(t, "supervisor", d, "sup_stamp",
                <<Event("enter", "supervisor", st[t], Absent),
                  Event("plan_call", "supervisor", st[t], Get(st[t], "query", Txt(<<>>)))>>
                \o (IF o.raises THEN <<>>
                    ELSE <<Event("model", "supervisor", st[t], o.content)>>)
                \o (IF p.raised THEN <<>>
                    ELSE <<Event("plan_return", "supervisor", st[t], p.plan)>>))

\* a supervisor that, once its child came back, waits for a further result
\* and so never goes on
SupervisorStamp_Blocks(t) ==
    /\ pc[t] = "sup_stamp"
    /\ UNCHANGED vars

\* SupervisorAgent.execute after the child came back (lines 166-179)
SupervisorStamp(t) ==
    /\ pc[t] = "sup_stamp"
    /\ IF exc[t] # NoExc
       THEN Apply(t, "supervisor", Raises(st[t], exc[t]), "none", <<>>)
       ELSE Apply(t, "supervisor", Returns(SupervisorStampState(st[t], st[t].plan)), "none", <<>>)

\* InsuranceAgent.execute up to the delegation (lines 22-81)
InsuranceStep(t) ==
    /\ pc[t] = "ins"
    /\ \E o \in {InsuranceExecute(st[t], registry.specialists)} :
          Apply(t, "insurance", o, "ins_ret", <<Event("enter", "insurance", st[t], Absent)>>)

\* MedicaidSpecialistAgent.execute up to the delegation (lines 22-57)
MedicaidStep(t) ==
    /\ pc[t] = "med"
    /\ Apply(t, "medicaid", MedicaidExecute(st[t], registry.portal_agents), "med_ret",
             <<Event("enter", "medicaid", st[t], Absent)>>)

\* a router that writes a response of its own after its child returned
RouterReturn_PostProcesses(t) ==
    /\ pc[t] \in {"ins_ret", "med_ret"}
    /\ LET who == IF pc[t] = "ins_ret" THEN "insurance" ELSE "medicaid"
       IN  IF exc[t] # NoExc
           THEN Apply(t, who, Raises(st[t], exc[t]), "none", <<>>)
           ELSE Apply(t, who, Returns(Set(st[t], "response", W("routed"))), "none", <<>>)

\* `return specialist.execute(state)` / `return portal_agent.execute(state)`:
\* the router hands on what its child returned or raised
RouterReturn(t) ==
    /\ pc[t] \in {"ins_ret", "med_ret"}
    /\ LET who == IF pc[t] = "ins_ret" THEN "insurance" ELSE "medicaid"
       IN  IF exc[t] # NoExc
           THEN Apply(t, who, Raises(st[t], exc[t]), "none", <<>>)
           ELSE Apply(t, who, Returns(st[t]), "none", <<>>)

-----------------------------------------------------------------------------
(* Portal handlers *)

\* `except Exception as e: state['error'] = str(e); return state`
HandlerCatch(state, e) == Set(state, "error", Txt(e.msg))

\* MoHealthNetAgent.execute, line 87 (and lines 150-162 when it raises)
MoGetCredentials(t) ==
    /\ pc[t] = "mo"
    /\ LET c == GetCredentials(config)
           evs == <<Event("enter", "mohealthnet", st[t], Absent),
                    Event("get_credentials", "mohealthnet", st[t],
                          IF c.ok THEN W("found") ELSE W("missing"))>>
       IN  IF c.ok
           THEN Step(t, "mo_set", st[t], stack[t], NoExc, ret[t], cl[t], evs)
           ELSE Apply(t, "mohealthnet", Returns(HandlerCatch(st[t], c.e)), "none",
                      evs \o <<Event("catch", "mohealthnet", st[t], ExcInfo(c.e))>>)

\* MoHealthNetAgent.execute, line 96
MoSetCredentials(t) ==
    /\ pc[t] = "mo_set"
    /\ \E cause \in TransportCauses \cup {""} :
          LET c == GetCredentials(config)
              r == SetCredentials(config.client_secret, c.username, c.password, cause)
              evs == <<Event("request", "set_credentials", st[t], r.payload)>>
                     \o (IF cause = "" THEN <<>>
                         ELSE <<Event("fault", "set_credentials", st[t], W(cause))>>)
          IN  IF r.e = NoExc
              THEN Step(t, "mo_cmd", st[t], stack[t], NoExc, ret[t], cl[t], evs)
              ELSE Apply(t, "mohealthnet", Returns(HandlerCatch(st[t], r.e)), "none",
                         evs \o <<Event("catch", "mohealthnet", st[t], ExcInfo(r.e))>>)

\* a handler that gives up when it has no patient information
MoExecuteCommand_RequiresPatientInfo(t) ==
    /\ pc[t] = "mo_cmd"
    /\ LET patient_info == Get(st[t], "patient_info", Dict(<<>>))
       IN  IF patient_info = Dict(<<>>) \/ ~Truthy(patient_info)
           THEN Apply(t, "mohealthnet",
                      Returns(HandlerCatch(st[t], Exc("ValueError", <<"No patient information provided">>))),
                      "none", <<>>)
           ELSE Step(t, "cl_call", st[t], Append(stack[t], "mo_after"), NoExc, ret[t],
                     CommandCall(MoHealthNetCommand, {"callback"}),
                     <<Event("call", "mohealthnet", st[t], Txt(MoHealthNetCommand))>>)

\* MoHealthNetAgent.execute, lines 98-135: the call of execute_command
MoExecuteCommand(t) ==
    /\ pc[t] = "mo_cmd"
    /\ LET patient_info == Get(st[t], "patient_info", Dict(<<>>))
           warn == IF patient_info = Dict(<<>>) \/ ~Truthy(patient_info)
                   THEN <<Event("warning", "mohealthnet", st[t], W("No patient information provided"))>>
                   ELSE <<>>
       IN  Step(t, "cl_call", st[t], Append(stack[t], "mo_after"), NoExc, ret[t],
                CommandCall(MoHealthNetCommand, {"callback"}),
                warn \o <<Event("call", "mohealthnet", st[t], Txt(MoHealthNetCommand))>>)

\* what a handler does with the outcome of execute_command: the result goes
\* into `field`, an exception into error
HandlerFinish(state, field, e, r) ==
    IF e # NoExc THEN HandlerCatch(state, e) ELSE Set(state, field, r)

Caught(t, who) ==
    IF exc[t] # NoExc THEN <<Event("catch", who, st[t], ExcInfo(exc[t]))>> ELSE <<>>

\* MoHealthNetAgent.execute, lines 136-148 and 150-162
MoAfterCommand(t) ==
    /\ pc[t] = "mo_after"
    /\ Apply(t, "mohealthnet",
             Returns(HandlerFinish(st[t], "portal_response", exc[t], ret[t])), "none",
             Caught(t, "mohealthnet"))

\* BasicSearchAgent.execute, lines 22-25 and 80-102
SearchEntryState(state) == Set(state, "search_results", Lst(<<>>))

SearchBegin(t) ==
    /\ pc[t] = "srch"
    /\ LET s1 == SearchEntryState(st[t])
           query == Get(s1, "query", Txt(<<>>))
       IN  Step(t, "cl_call", s1, Append(stack[t], "srch_after"), NoExc, ret[t],
                CommandCall(SearchCommand(query.val), {"callback"}),
                <<Event("enter", "search", st[t], Absent),
                  Event("call", "search", s1, Txt(SearchCommand(query.val)))>>)

\* BasicSearchAgent.execute, lines 103-129
SearchAfterCommand(t) ==
    /\ pc[t] = "srch_after"
    /\ Apply(t, "search",
             Returns(HandlerFinish(st[t], "search_results", exc[t], ret[t])), "none",
             Caught(t, "search"))

-----------------------------------------------------------------------------
(* AgentDClient *)

\* binding the arguments of a call to `def execute_command(self, command)`
BindExecuteCommand(kwargs) ==
    IF kwargs \subseteq ExecuteCommandKeywords THEN NoExc
    ELSE Exc("TypeError", <<"execute_command() got an unexpected keyword argument ", "'callback'">>)

ClientBind(t) ==
    /\ pc[t] = "cl_call"
    /\ LET e == BindExecuteCommand(cl[t].kwargs)
       IN  IF e = NoExc
           THEN Step(t, "cl_post", st[t], stack[t], NoExc, ret[t], cl[t],
                     <<Event("enter", "client", st[t], Txt(cl[t].command))>>)
           ELSE Leave(t, st[t], e, ret[t], cl[t],
                      <<Event("raise", "client", st[t], ExcInfo(e))>>)

\* how execute_command ends when the transport fails with `cause` (line 31-32)
TransportError(cause) == Exc("ConnectionError", <<"Failed to execute command: ", cause>>)

\* a client that posts again when the first request fails
PostRequests_Retry(t, cause) ==
    IF cause = ""
    THEN <<Event("request", "execute_task", st[t], Txt(cl[t].command))>>
    ELSE <<Event("request", "execute_task", st[t], Txt(cl[t].command)),
           Event("request", "execute_task", st[t], Txt(cl[t].command))>>

\* the requests execute_command issues for one call, given the first one's outcome
PostRequests(t, cause) == <<Event("request", "execute_task", st[t], Txt(cl[t].command))>>

\* execute_command, lines 22-24: the POST and raise_for_status
ClientPost(t) ==
    /\ pc[t] = "cl_post"
    /\ \/ \E cause \in TransportCauses :
             Leave(t, st[t], TransportError(cause), ret[t], cl[t],
                   PostRequests(t, cause)
                   \o <<Event("fault", "execute_task", st[t], W(cause)),
                        Event("raise", "client", st[t], ExcInfo(TransportError(cause)))>>)
       \/ \E stream \in Streams, broken \in BOOLEAN :
             Step(t, "cl_read", st[t], stack[t], NoExc, ret[t],
                  [cl[t] EXCEPT !.body = stream, !.stream = stream, !.broken = broken],
                  PostRequests(t, ""))

\* execute_command, lines 26-29: one iteration of `for line in response.iter_lines()`
ClientReadLine(t) ==
    /\ pc[t] = "cl_read"
    /\ cl[t].stream # <<>>
    /\ LET line == Head(cl[t].stream)
       IN  IF line # <<>> /\ ~Decode(line).ok
           THEN Leave(t, st[t], DecodeError, ret[t], cl[t],
                      <<Event("line", "client", st[t], Lst(line)),
                        Event("raise", "client", st[t], ExcInfo(DecodeError))>>)
           ELSE Step(t, "cl_read", st[t], stack[t], NoExc, ret[t],
                     [cl[t] EXCEPT !.stream = Tail(@), !.result = AppendLine(@, line)],
                     <<Event("line", "client", st[t], Lst(line))>>)

\* execute_command, lines 30-32: the stream ends, or breaks
ClientEnd(t) ==
    /\ pc[t] = "cl_read"
    /\ cl[t].stream = <<>>
    /\ IF cl[t].broken
       THEN Leave(t, st[t], TransportError(BrokenStream), ret[t], cl[t],
                  <<Event("fault", "execute_task", st[t], W(BrokenStream)),
                    Event("raise", "client", st[t], ExcInfo(TransportError(BrokenStream)))>>)
       ELSE Leave(t, st[t], NoExc, Txt(cl[t].result), cl[t],
                  <<Event("return", "client", st[t], Txt(cl[t].result))>>)

\* AgentDClient.set_credentials called on its own
ClientSetCredentials(t) ==
    /\ pc[t] = "cl_setcreds"
    /\ \E cause \in TransportCauses \cup {""} :
          LET r == SetCredentials(config.client_secret, cl[t].args[1], cl[t].args[2], cause)
              evs == <<Event("enter", "set_credentials", st[t], Absent),
                       Event("request", "set_credentials", st[t], r.payload)>>
          IN  IF r.e = NoExc
              THEN Leave(t, st[t], NoExc, W("ack"), cl[t],
                         evs \o <<Event("return", "set_credentials", st[t], W("ack"))>>)
              ELSE Leave(t, st[t], r.e, ret[t], cl[t],
                         evs \o <<Event("fault", "set_credentials", st[t], W(cause)),
                                  Event("raise", "set_credentials", st[t], ExcInfo(r.e))>>)

-----------------------------------------------------------------------------

Next ==
    \/ \E t \in active : SupervisorExecute(t)
    \/ \E t \in active : SupervisorStamp(t)
    \/ \E t \in active : InsuranceStep(t)
    \/ \E t \in active : MedicaidStep(t)
    \/ \E t \in active : RouterReturn(t)
    \/ \E t \in active : MoGetCredentials(t)
    \/ \E t \in active : MoSetCredentials(t)
    \/ \E t \in active : MoExecuteCommand(t)
    \/ \E t \in active : MoAfterCommand(t)
    \/ \E t \in active : SearchBegin(t)
    \/ \E t \in active : SearchAfterCommand(t)
    \/ \E t \in active : ClientBind(t)
    \/ \E t \in active : ClientPost(t)
    \/ \E t \in active : ClientReadLine(t)
    \/ \E t \in active : ClientEnd(t)
    \/ \E t \in active : ClientSetCredentials(t)

Spec == Init /\ [][Next]_vars

-----------------------------------------------------------------------------
(* print_stream on its own: a handler's closure is applied to the lines of  *)
(* a stream, one after the other, on the state of its task                  *)

FoldStreams == SeqsUpTo(FoldLines, MaxFold)

FoldConfig == [client_secret |-> W("s3cret"), username |-> W("user"), password |-> W("pw")]

FoldStates ==
    { [BlankState EXCEPT !.query = W("cats"), !.error = er, !.search_results = sr] :
        er \in {Absent, None}, sr \in {Absent, Txt(<<>>)} }

FoldInputs ==
    {[pc |-> "fold_srch", st |-> SearchEntryState(s), cl |-> [NoCall EXCEPT !.body = b, !.stream = b]] :
        s \in FoldStates, b \in FoldStreams}
    \cup {[pc |-> "fold_mo", st |-> s, cl |-> [NoCall EXCEPT !.body = b, !.stream = b]] :
            s \in FoldStates, b \in FoldStreams}

FoldInit ==
    /\ config = FoldConfig
    /\ registry = Registries
    /\ active = {1}
    /\ \E in \in FoldInputs :
          /\ pc = [t \in Tasks |-> IF t = 1 THEN in.pc ELSE "off"]
          /\ st = [t \in Tasks |-> IF t = 1 THEN in.st ELSE BlankState]
          /\ cl = [t \in Tasks |-> IF t = 1 THEN in.cl ELSE NoCall]
    /\ stack = [t \in Tasks |-> IF t = 1 THEN <<"top">> ELSE <<>>]
    /\ exc = [t \in Tasks |-> NoExc]
    /\ ret = [t \in Tasks |-> Absent]
    /\ log = [t \in Tasks |-> <<>>]

\* one call of a print_stream on the next line: what it logs, the state it
\* leaves, and the exception that leaves it
Fold(t, who, o) ==
    LET line == Head(cl[t].stream)
        evs == <<Event("fold", who, st[t], Lst(line))>>
               \o [i \in 1..Len(o.emit) |-> Event("emit", who, o.st, Dict(o.emit[i]))]
    IN  IF o.raised
        THEN Leave(t, o.st, o.e, ret[t], cl[t],
                   evs \o <<Event("fold_raise", who, o.st, ExcInfo(o.e))>>)
        ELSE Step(t, pc[t], o.st, stack[t], NoExc, ret[t], [cl[t] EXCEPT !.stream = Tail(@)],
                  evs \o <<Event("folded", who, o.st, Lst(line))>>)

SearchFold(t) ==
    /\ pc[t] = "fold_srch"
    /\ cl[t].stream # <<>>
    /\ Fold(t, "search", SearchPrintStream(st[t], Head(cl[t].stream)))

MoFold(t) ==
    /\ pc[t] = "fold_mo"
    /\ cl[t].stream # <<>>
    /\ Fold(t, "mohealthnet", MoPrintStream(st[t], Head(cl[t].stream)))

\* no line is left
FoldEnd(t) ==
    /\ pc[t] \in {"fold_srch", "fold_mo"}
    /\ cl[t].stream = <<>>
    /\ Leave(t, st[t], NoExc, ret[t], cl[t], <<Event("fold_end", "client", st[t], Absent)>>)

FoldNext ==
    \/ \E t \in active : SearchFold(t)
    \/ \E t \in active : MoFold(t)
    \/ \E t \in active : FoldEnd(t)

FoldSpec == FoldInit /\ [][FoldNext]_vars

-----------------------------------------------------------------------------
(* Two task invocations that run interleaved through the same agents        *)

PairConfigs ==
    { [client_secret |-> None, username |-> W("user"), password |-> W("pw")],
      [client_secret |-> W("s3cret"), username |-> None, password |-> W("pw")] }

PairStates ==
    { [BlankState EXCEPT !.query = W("cats")],
      [BlankState EXCEPT !.query = Txt(JaneDoeQuery), !.insurance_type = W("MEDICAID"),
                         !.reasoning = W("stale")] }

\* the first invocation: a task through the supervisor, or a call of the
\* client the handlers share
FirstInputs ==
    {[pc |-> "sup", st |-> s, cl |-> NoCall] : s \in PairStates}
    \cup {[pc |-> "cl_call", st |-> BlankState, cl |-> CommandCall(<<"do it">>, {})]}
    \cup {[pc |-> "cl_setcreds", st |-> BlankState,
           cl |-> [NoCall EXCEPT !.args = <<W("user"), W("pw")>>]]}

\* the second invocation: a task through the supervisor
SecondInputs == {[pc |-> "sup", st |-> s, cl |-> NoCall] : s \in PairStates}

PairInit ==
    /\ config \in PairConfigs
    /\ registry = Registries
    /\ active = {1, 2}
    /\ \E a \in FirstInputs, b \in SecondInputs :
          LET in(t) == IF t = 1 THEN a ELSE IF t = 2 THEN b ELSE IdleInput
          IN  /\ pc = [t \in Tasks |-> in(t).pc]
              /\ st = [t \in Tasks |-> in(t).st]
              /\ cl = [t \in Tasks |-> in(t).cl]
    /\ stack = [t \in Tasks |-> IF t \in {1, 2} THEN <<"top">> ELSE <<>>]
    /\ exc = [t \in Tasks |-> NoExc]
    /\ ret = [t \in Tasks |-> Absent]
    /\ log = [t \in Tasks |-> <<>>]

PairSpec == PairInit /\ [][Next]_vars

-----------------------------------------------------------------------------
(* The workflows: three nodes wired start -> execute -> end around the      *)
(* supervisor (basic_search_workflow.py and                                 *)
(* eligibility_verification_workflow.py have the same graph)                *)

\* str(uuid.uuid4()) and datetime.now().isoformat(): non-empty texts
NewTransactionId == W("uuid4")
NowIso == W("now")

\* the start node's writes
WorkflowStartState(state) ==
    Set(Set(state, "transaction_id", NewTransactionId), "timestamp", NowIso)

\* an end node that resets the error before it returns the state
EndWorkflow_ClearsError(state) == Set(state, "error", None)

\* the end node's writes: it logs and prints, and returns the state it got
EndWorkflow(state) == state

\* main.py's initial state, and the same with the keys a caller of the
\* eligibility workflow adds
WorkflowStates ==
    { [BlankState EXCEPT !.query = q, !.search_results = Txt(<<>>), !.error = None,
                         !.plan = Plan3(Absent, Absent, Absent), !.reasoning = Txt(<<>>),
                         !.insurance_type = it, !.portal_name = pn] :
        q \in QueryInputs \ {Absent},
        it \in {Absent, W("MEDICAID"), W("Aetna")},
        pn \in {Absent, W("MoHealthNet")} }

WorkflowInit ==
    /\ config \in Configs
    /\ registry = Registries
    /\ active = {1}
    /\ \E s \in WorkflowStates :
          st = [t \in Tasks |-> IF t = 1 THEN s ELSE BlankState]
    /\ pc = [t \in Tasks |-> IF t = 1 THEN "wf" ELSE "off"]
    /\ cl = [t \in Tasks |-> NoCall]
    /\ stack = [t \in Tasks |-> IF t = 1 THEN <<"top">> ELSE <<>>]
    /\ exc = [t \in Tasks |-> NoExc]
    /\ ret = [t \in Tasks |-> Absent]
    /\ log = [t \in Tasks |-> <<>>]

\* workflow.invoke enters the graph and runs the start node
WorkflowStart(t) ==
    /\ pc[t] = "wf"
    /\ LET s == WorkflowStartState(st[t])
       IN  Step(t, "wf_execute", s, stack[t], NoExc, ret[t], cl[t],
                <<Event("enter", "workflow", st[t], Absent),
                  Event("enter", "node_start", st[t], Absent),
                  Event("return", "node_start", s, Absent)>>)

\* the execute node calls supervisor.execute(state)
WorkflowExecute(t) ==
    /\ pc[t] = "wf_execute"
    /\ Step(t, "sup", st[t], Append(stack[t], "wf_after"), NoExc, ret[t], cl[t],
            <<Event("enter", "node_execute", st[t], Absent),
              Event("call", "node_execute", st[t], W("sup"))>>)

\* supervisor.execute came back: its state is the node's result, and its
\* exception leaves the node, the graph and workflow.invoke
WorkflowAfter(t) ==
    /\ pc[t] = "wf_after"
    /\ IF exc[t] # NoExc
       THEN Leave(t, st[t], exc[t], ret[t], cl[t],
                  <<Event("raise", "node_execute", st[t], ExcInfo(exc[t])),
                    Event("raise", "workflow", st[t], ExcInfo(exc[t]))>>)
       ELSE Step(t, "wf_end", st[t], stack[t], NoExc, ret[t], cl[t],
                 <<Event("return", "node_execute", st[t], Absent)>>)

\* the end node, and workflow.invoke returns the final state
WorkflowEnd(t) ==
    /\ pc[t] = "wf_end"
    /\ LET s == EndWorkflow(st[t])
       IN  Leave(t, s, NoExc, ret[t], cl[t],
                 <<Event("enter", "node_end", st[t], Absent),
                   Event("return", "node_end", s, Absent),
                   Event("return", "workflow", s, Absent)>>)

WorkflowNext ==
    \/ \E t \in active : WorkflowStart(t)
    \/ \E t \in active : WorkflowExecute(t)
    \/ \E t \in active : WorkflowAfter(t)
    \/ \E t \in active : WorkflowEnd(t)
    \/ \E t \in active : SupervisorExecute(t)
    \/ \E t \in active : SupervisorStamp(t)
    \/ \E t \in active : InsuranceStep(t)
    \/ \E t \in active : MedicaidStep(t)
    \/ \E t \in active : RouterReturn(t)
    \/ \E t \in active : MoGetCredentials(t)
    \/ \E t \in active : MoSetCredentials(t)
    \/ \E t \in active : MoExecuteCommand(t)
    \/ \E t \in active : MoAfterCommand(t)
    \/ \E t \in active : SearchBegin(t)
    \/ \E t \in active : SearchAfterCommand(t)
    \/ \E t \in active : ClientBind(t)

WorkflowSpec == WorkflowInit /\ [][WorkflowNext]_vars

-----------------------------------------------------------------------------
(* A call runs on: the interpreter executes the next statement of the one   *)
(* running call, a request comes back or fails, and a line is read whenever *)
(* the stream has one, so a step that can be taken is taken                 *)

LiveStates ==
    { [BlankState EXCEPT !.query = q, !.insurance_type = it, !.portal_name = pn] :
        q \in {W("cats"), Txt(JaneDoeQuery), Txt(NoNameQuery)},
        it \in {Absent, W("MEDICAID"), W("Aetna")},
        pn \in {Absent, W("MoHealthNet")} }

LiveInputs ==
    {[pc |-> e, st |-> s, cl |-> NoCall] : e \in StageEntries, s \in LiveStates}
    \cup {[pc |-> "cl_call", st |-> BlankState, cl |-> c] : c \in CallInputs}
    \cup {[pc |-> "cl_setcreds", st |-> BlankState, cl |-> c] : c \in CredentialInputs}

LiveInit ==
    /\ config \in Configs
    /\ registry = Registries
    /\ active = {1}
    /\ \E in \in LiveInputs :
          /\ pc = [t \in Tasks |-> IF t = 1 THEN in.pc ELSE "off"]
          /\ st = [t \in Tasks |-> IF t = 1 THEN in.st ELSE BlankState]
          /\ cl = [t \in Tasks |-> IF t = 1 THEN in.cl ELSE NoCall]
    /\ stack = [t \in Tasks |-> IF t = 1 THEN <<"top">> ELSE <<>>]
    /\ exc = [t \in Tasks |-> NoExc]
    /\ ret = [t \in Tasks |-> Absent]
    /\ log = [t \in Tasks |-> <<>>]

\* every step of a running call is taken once it can be taken
Fairness ==
    /\ WF_vars(\E t \in active : SupervisorExecute(t))
    /\ WF_vars(\E t \in active : SupervisorStamp(t))
    /\ WF_vars(\E t \in active : InsuranceStep(t))
    /\ WF_vars(\E t \in active : MedicaidStep(t))
    /\ WF_vars(\E t \in active : RouterReturn(t))
    /\ WF_vars(\E t \in active : MoGetCredentials(t))
    /\ WF_vars(\E t \in active : MoSetCredentials(t))
    /\ WF_vars(\E t \in active : MoExecuteCommand(t))
    /\ WF_vars(\E t \in active : MoAfterCommand(t))
    /\ WF_vars(\E t \in active : SearchBegin(t))
    /\ WF_vars(\E t \in active : SearchAfterCommand(t))
    /\ WF_vars(\E t \in active : ClientBind(t))
    /\ WF_vars(\E t \in active : ClientPost(t))
    /\ WF_vars(\E t \in active : ClientReadLine(t))
    /\ WF_vars(\E t \in active : ClientEnd(t))
    /\ WF_vars(\E t \in active : ClientSetCredentials(t))

LiveSpec == LiveInit /\ [][Next]_vars /\ Fairness

-----------------------------------------------------------------------------
(* Reading the history *)

Stages == {"supervisor", "insurance", "medicaid", "mohealthnet", "search"}
Routers == {"insurance", "medicaid"}
Handlers == {"mohealthnet", "search"}

Entered(h, who) == \E i \in 1..Len(h) : h[i].ev = "enter" /\ h[i].who = who
EnterIdx(h, who) == CHOOSE i \in 1..Len(h) : h[i].ev = "enter" /\ h[i].who = who
EnterState(h, who) == h[EnterIdx(h, who)].st

Ended(h, who) == \E i \in 1..Len(h) : h[i].ev \in {"return", "raise"} /\ h[i].who = who
EndIdx(h, who) == CHOOSE i \in 1..Len(h) : h[i].ev \in {"return", "raise"} /\ h[i].who = who
Returned(h, who) == \E i \in 1..Len(h) : h[i].ev = "return" /\ h[i].who = who
ReturnState(h, who) == h[EndIdx(h, who)].st

Has(h, ev, who) == \E i \in 1..Len(h) : h[i].ev = ev /\ h[i].who = who

NonEmptyText(v) == IsText(v) /\ v.val # <<>>

\* the task was started on a state that carries no error
CleanStart(h) == h = <<>> \/ ~Truthy(h[1].st.error)

-----------------------------------------------------------------------------
(* C1: a stage entered with state.error already set to a non-empty text     *)
(* returns the state with every field unchanged and does nothing else: its  *)
(* return follows its entry at once (no planner call, no delegation, no     *)
(* request in between) and carries the state as it was on entry.            *)
C1_ErrorShortCircuit ==
    \A t \in active : \A who \in Stages :
        (Entered(log[t], who) /\ NonEmptyText(EnterState(log[t], who).error)
            /\ Returned(log[t], who))
        => /\ EndIdx(log[t], who) = EnterIdx(log[t], who) + 1
           /\ ReturnState(log[t], who) = EnterState(log[t], who)

-----------------------------------------------------------------------------
(* C2 *)

\* the routing key a router reads on entry, and its registry
RoutingKey(who, state) ==
    IF who = "insurance"
    THEN Lower(Get(state, "insurance_type", W("medicaid")).val)
    ELSE Lower(Get(state, "portal_name", W("mohealthnet")).val)

RegistryOf(who) == IF who = "insurance" THEN registry.specialists ELSE registry.portal_agents

UnknownKeyEntry(h, who) ==
    Entered(h, who) /\ RoutingKey(who, EnterState(h, who)) \notin DOMAIN RegistryOf(who)

\* the router came to its end by returning, with error set and every key
\* outside `free` as on entry
ErrorOnlyReturn(h, who, free) ==
    /\ Returned(h, who)
    /\ NonEmptyText(ReturnState(h, who).error)
    /\ SameExcept(EnterState(h, who), ReturnState(h, who), {"error"} \cup free)

EntryQuery(h, who) == Get(EnterState(h, who), "query", Txt(<<>>)).val

-----------------------------------------------------------------------------
(* C3: no exception escapes a stage's execute: every stage that ends,       *)
(* returns, whatever the planner call, the credential lookup and the        *)
(* backend do.                                                              *)
C3_NoExceptionEscapes ==
    \A t \in active : \A i \in 1..Len(log[t]) :
        (CleanStart(log[t]) /\ log[t][i].ev = "raise") => log[t][i].who \notin Stages

-----------------------------------------------------------------------------
(* C4 - C6: the portal handlers and the callback *)

ResultField(who) == IF who = "mohealthnet" THEN "portal_response" ELSE "search_results"

CredentialsMissing(h) ==
    \E i \in 1..Len(h) : h[i].ev = "get_credentials" /\ h[i].info = W("missing")

TransportFailed(h) == \E i \in 1..Len(h) : h[i].ev = "fault"

StreamAborted(h) ==
    \E i \in 1..Len(h) : h[i].ev = "raise" /\ h[i].who = "client"
                         /\ h[i].info.val[1] = "UnicodeDecodeError"

ClientReturnValue(h) ==
    h[CHOOSE i \in 1..Len(h) : h[i].ev = "return" /\ h[i].who = "client"].info

(* C4: a handler that ran with credentials configured and without any       *)
(* transport failure returns with the client's buffer in its result field   *)
(* (portal_response, search_results) and with error as it was.              *)
C4_HandlerSuccessPath ==
    \A t \in active : \A who \in Handlers :
        (CleanStart(log[t]) /\ Returned(log[t], who) /\ ~CredentialsMissing(log[t])
            /\ ~TransportFailed(log[t]) /\ ~StreamAborted(log[t]))
        => /\ Has(log[t], "return", "client")
           /\ ReturnState(log[t], who)[ResultField(who)] = ClientReturnValue(log[t])
           /\ ReturnState(log[t], who).error = EnterState(log[t], who).error

(* C5: a handler that returns through its failure path has the cause text   *)
(* in state.error and every other field as on entry.                        *)
C5_HandlerFailureFrame ==
    \A t \in active : \A who \in Handlers :
        (CleanStart(log[t]) /\ Returned(log[t], who) /\ Has(log[t], "catch", who))
        => /\ NonEmptyText(ReturnState(log[t], who).error)
           /\ SameExcept(EnterState(log[t], who), ReturnState(log[t], who), {"error"})

NonEmptyLines(h) ==
    {i \in 1..Len(h) : h[i].ev = "line" /\ h[i].who = "client" /\ h[i].info.val # <<>>}

(* C6: when execute_command returns, the callback has been invoked once for *)
(* each non-empty line received (and for no other line).                    *)
C6_CallbackPerLine ==
    \A t \in active :
        Has(log[t], "return", "client")
        => CountEv(log[t], "callback") = Cardinality(NonEmptyLines(log[t]))

-----------------------------------------------------------------------------
(* C7: when the stream is exhausted without failure, execute_command        *)
(* returns the concatenation, in arrival order, of every non-empty line of  *)
(* the response body followed by one newline.                               *)

RECURSIVE JoinLines(_)
JoinLines(lines) ==
    IF lines = <<>> THEN <<>>
    ELSE (IF Head(lines) = <<>> THEN <<>> ELSE Head(lines) \o <<"\n">>) \o JoinLines(Tail(lines))

C7_ReturnValue ==
    \A t \in active : \A i \in 1..Len(log[t]) :
        (log[t][i].ev = "return" /\ log[t][i].who = "client")
        => /\ log[t][i].info = Txt(JoinLines(cl[t].body))
           /\ (i = Len(log[t]) => ret[t] = Txt(JoinLines(cl[t].body)))

\* a call returned whose body had an empty line and two other lines
C7_Witness ==
    \E t \in active :
        /\ pc[t] = "done"
        /\ Has(log[t], "return", "client")
        /\ \E i \in 1..Len(cl[t].body) : cl[t].body[i] = <<>>
        /\ Cardinality({i \in 1..Len(cl[t].body) : cl[t].body[i] # <<>>}) >= 2
        /\ ret[t] = Txt(JoinLines(cl[t].body))

-----------------------------------------------------------------------------
(* C8: nothing is retried.  One execute_command issues at most one request; *)
(* a transport failure ends it at once with a ConnectionError that carries  *)
(* the cause, and no buffer is returned; every stage calls the planner, its *)
(* child, set_credentials and execute_command at most once per task.        *)
C8_NoRetry ==
    \A t \in active :
        /\ Count(log[t], "request", "execute_task") <= 1
        /\ Count(log[t], "request", "set_credentials") <= 1
        /\ CountEv(log[t], "plan_call") <= 1
        /\ \A who \in Stages : Count(log[t], "call", who) <= 1
        /\ \A i \in 1..Len(log[t]) :
              (log[t][i].ev = "fault" /\ log[t][i].who = "execute_task")
              => /\ i < Len(log[t])
                 /\ log[t][i + 1].ev = "raise"
                 /\ log[t][i + 1].who = "client"
                 /\ log[t][i + 1].info.val[1] = "ConnectionError"
                 /\ Contains(log[t][i + 1].info.val, log[t][i].info.val[1])
                 /\ ~Has(log[t], "return", "client")
                 /\ ret[t] = Absent
                 /\ (i + 1 = Len(log[t]) => Contains(exc[t].msg, log[t][i].info.val[1]))

\* the connection broke after a line had been received, and the call raised
C8_Witness ==
    \E t \in active :
        /\ pc[t] = "raised"
        /\ NonEmptyLines(log[t]) # {}
        /\ \E i \in 1..Len(log[t]) :
              log[t][i].ev = "fault" /\ log[t][i].who = "execute_task"
              /\ log[t][i].info = W(BrokenStream)
        /\ exc[t].type = "ConnectionError"

-----------------------------------------------------------------------------
(* C9: no request to set_credentials carries an absent client secret: with  *)
(* the secret not configured the call raises before it sends anything.      *)
C9_MissingSecretRaises ==
    \A t \in active : \A i \in 1..Len(log[t]) :
        (log[t][i].ev = "request" /\ log[t][i].who = "set_credentials")
        => log[t][i].info.val.client_secret # None

-----------------------------------------------------------------------------
(* C10: the plan plan_task returns, which execute stores in state.plan, is  *)
(* a mapping with agent, reasoning and instructions, each a text.           *)
C10_PlanWellFormed ==
    \A t \in active :
        (CleanStart(log[t]) /\ Entered(log[t], "supervisor")
            /\ st[t].plan # EnterState(log[t], "supervisor").plan)
        => WellFormedPlan(st[t].plan)

-----------------------------------------------------------------------------
(* Reading the planner's part of the history *)

EventInfo(h, ev, who) == h[CHOOSE i \in 1..Len(h) : h[i].ev = ev /\ h[i].who = who].info

ModelAnswered(h) == Has(h, "model", "supervisor")
ModelContent(h) == EventInfo(h, "model", "supervisor")

PlanReturned(h) == Has(h, "plan_return", "supervisor")
ReturnedPlan(h) == EventInfo(h, "plan_return", "supervisor")

\* the model call succeeded and its text is not a literal
ParseFails(h) ==
    ModelAnswered(h) /\ IsText(ModelContent(h)) /\ ~LiteralEval(ModelContent(h).val).ok

\* no stage below the supervisor was entered and nothing was asked of the client
NoHandlerInvoked(h) ==
    /\ \A who \in Stages \ {"supervisor"} : ~Entered(h, who)
    /\ ~Has(h, "call", "supervisor")
    /\ CountEv(h, "request") = 0
    /\ CountEv(h, "get_credentials") = 0

-----------------------------------------------------------------------------
(* C11: when the model call succeeds and its text is not a literal,         *)
(* plan_task raises nothing and returns the fallback plan; execute returns  *)
(* with plan.agent "self", response equal to the fallback instructions, no  *)
(* handler invoked, no request sent and error as it was on entry.           *)
C11_ParseFallback ==
    \A t \in active :
        ParseFails(log[t])
        => /\ PlanReturned(log[t])
           /\ ReturnedPlan(log[t]) = FallbackPlan
           /\ Returned(log[t], "supervisor")
           /\ pc[t] = "done"
           /\ st[t] = ReturnState(log[t], "supervisor")
           /\ st[t].plan.kind = "dict"
           /\ st[t].plan.val.agent = W("self")
           /\ st[t].response = FallbackPlan.val.instructions
           /\ st[t].error = EnterState(log[t], "supervisor").error
           /\ NoHandlerInvoked(log[t])

\* the model answered in prose on a state without error: the task is done
\* with the fallback plan stored and its instructions as the response
C11_Witness ==
    \E t \in active :
        /\ ParseFails(log[t])
        /\ ModelContent(log[t]) = Txt(<<"I would use the search agent">>)
        /\ pc[t] = "done"
        /\ EnterState(log[t], "supervisor").error = Absent
        /\ st[t].error = Absent
        /\ st[t].plan = FallbackPlan
        /\ NonEmptyText(st[t].response)

-----------------------------------------------------------------------------
(* C12 *)

\* the planner returned a mapping whose agent is a text
PlanHasAgentName(h) ==
    /\ PlanReturned(h)
    /\ ReturnedPlan(h).kind = "dict"
    /\ IsText(PlanGet(ReturnedPlan(h), "agent", Txt(<<>>)))

PlanAgentName(h) == Lower(PlanGet(ReturnedPlan(h), "agent", Txt(<<>>)).val)

\* the plan names a registered top-level agent
PlanDelegates(h) ==
    PlanHasAgentName(h) /\ PlanAgentName(h) # <<"self">>
    /\ PlanAgentName(h) \in DOMAIN registry.available_agents

\* the stage behind an entry point of the chain
StageOf(label) ==
    CASE label = "sup" -> "supervisor"
      [] label = "ins" -> "insurance"
      [] label = "med" -> "medicaid"
      [] label = "mo" -> "mohealthnet"
      [] label = "srch" -> "search"

DelegatedStage(h) == StageOf(registry.available_agents[PlanAgentName(h)])

CallState(h, who) == h[CHOOSE i \in 1..Len(h) : h[i].ev = "call" /\ h[i].who = who].st

(* C12: when the plan names a registered top-level agent and carries        *)
(* instructions Y, the supervisor calls that agent on a state whose query   *)
(* is Y, the agent's execute is entered with query Y, and the search        *)
(* handler builds its command from Y.                                       *)
C12_InstructionsBecomeQuery ==
    \A t \in active :
        (PlanDelegates(log[t]) /\ ReturnedPlan(log[t]).val.instructions.kind # "absent")
        => LET Y == ReturnedPlan(log[t]).val.instructions
               child == DelegatedStage(log[t])
           IN  /\ Has(log[t], "call", "supervisor")
               /\ CallState(log[t], "supervisor").query = Y
               /\ (pc[t] = registry.available_agents[PlanAgentName(log[t])]) => st[t].query = Y
               /\ Entered(log[t], child) => EnterState(log[t], child).query = Y
               /\ Has(log[t], "call", "search")
                  => EventInfo(log[t], "call", "search") = Txt(SearchCommand(Y.val))

\* the supervisor was entered with one query and the search handler with
\* another, the plan's instructions, from which it built its command
C12_Witness ==
    \E t \in active :
        /\ PlanDelegates(log[t])
        /\ Entered(log[t], "search")
        /\ Has(log[t], "call", "search")
        /\ EnterState(log[t], "supervisor").query = Txt(NoMarkerQuery)
        /\ ReturnedPlan(log[t]).val.instructions = W("cats")
        /\ EnterState(log[t], "search").query = W("cats")
        /\ EventInfo(log[t], "call", "search") = Txt(SearchCommand(<<"cats">>))

-----------------------------------------------------------------------------
(* C13: when plan.agent is "self", execute sets state.response to           *)
(* plan.instructions and returns at once: no handler is invoked, no request *)
(* is sent, state.query and state.error are as on entry (as is every field  *)
(* but plan and response).                                                  *)
C13_SelfPath ==
    \A t \in active :
        (PlanHasAgentName(log[t]) /\ PlanAgentName(log[t]) = <<"self">>)
        => /\ Returned(log[t], "supervisor")
           /\ pc[t] = "done"
           /\ st[t] = ReturnState(log[t], "supervisor")
           /\ st[t].response = PlanGet(ReturnedPlan(log[t]), "instructions", Txt(<<>>))
           /\ st[t].query = EnterState(log[t], "supervisor").query
           /\ st[t].error = EnterState(log[t], "supervisor").error
           /\ SameExcept(EnterState(log[t], "supervisor"), st[t], {"plan", "response"})
           /\ NoHandlerInvoked(log[t])

\* the model named "self" in a literal: the task is done with the plan's
\* instructions as the response and the query it came with
C13_Witness ==
    \E t \in active :
        /\ PlanHasAgentName(log[t])
        /\ PlanAgentName(log[t]) = <<"self">>
        /\ ~ParseFails(log[t])
        /\ pc[t] = "done"
        /\ st[t].response = W("answer")
        /\ st[t].query = W("cats")
        /\ st[t].error = Absent

-----------------------------------------------------------------------------
-----------------------------------------------------------------------------
(* C15: from the moment plan_task has returned and execute has stored its   *)
(* plan, state.plan is that plan: no deeper stage overwrites or removes it, *)
(* and on every path on which execute returns (self, delegated, unknown     *)
(* agent, fallback) the returned state carries it.                          *)
C15_PlanStored ==
    \A t \in active :
        PlanReturned(log[t])
        => /\ st[t].plan = ReturnedPlan(log[t])
           /\ \A i \in 1..Len(log[t]) :
                 (i > EnterIdx(log[t], "supervisor") + 2
                     /\ log[t][i].ev \in {"enter", "call", "return", "catch"})
                 => log[t][i].st.plan = ReturnedPlan(log[t])
           /\ Returned(log[t], "supervisor")
              => ReturnState(log[t], "supervisor").plan = ReturnedPlan(log[t])

\* the chain ran down to the portal handler and back: the supervisor
\* returned the state with the planner's plan in it
C15_Witness ==
    \E t \in active :
        /\ PlanDelegates(log[t])
        /\ Returned(log[t], "mohealthnet")
        /\ Returned(log[t], "supervisor")
        /\ pc[t] = "done"
        /\ st[t].plan = ReturnedPlan(log[t])
        /\ st[t].plan.kind = "dict"

-----------------------------------------------------------------------------
(* C16: when the delegated handler has returned (with or without error) and *)
(* execute returns, the returned state has reasoning equal to               *)
(* plan.reasoning, whatever reasoning the handler's state carried, and      *)
(* every other field is as the handler returned it.                         *)
C16_ReasoningStamp ==
    \A t \in active :
        (PlanDelegates(log[t]) /\ Returned(log[t], DelegatedStage(log[t]))
            /\ Ended(log[t], "supervisor"))
        => LET child == ReturnState(log[t], DelegatedStage(log[t]))
               out == ReturnState(log[t], "supervisor")
           IN  /\ Returned(log[t], "supervisor")
               /\ out.reasoning = PlanGet(ReturnedPlan(log[t]), "reasoning", Txt(<<>>))
               /\ SameExcept(child, out, {"reasoning"})
               /\ st[t] = out

\* the search handler returned a state with a stale reasoning and an error;
\* the supervisor returned it with the plan's reasoning
C16_Witness ==
    \E t \in active :
        /\ PlanDelegates(log[t])
        /\ Returned(log[t], "search")
        /\ Returned(log[t], "supervisor")
        /\ ReturnState(log[t], "search").reasoning = W("stale")
        /\ NonEmptyText(ReturnState(log[t], "search").error)
        /\ ReturnState(log[t], "supervisor").reasoning = W("web")

-----------------------------------------------------------------------------
(* C17 *)

\* the router was entered with a routing key of its registry and got as far
\* as the lookup (InsuranceAgent's parse of the query did not raise)
KnownKeyEntry(h, who) ==
    /\ Entered(h, who)
    /\ RoutingKey(who, EnterState(h, who)) \in DOMAIN RegistryOf(who)
    /\ ~(who = "insurance" /\ Contains(EntryQuery(h, who), Marker)
             /\ Split(SplitPart0(EntryQuery(h, who))) = <<>>)

RoutedChild(h, who) == RegistryOf(who)[RoutingKey(who, EnterState(h, who))]

(* C17: a router entered with a routing key of its registry calls exactly   *)
(* the child registered under that key, once, and when the child has        *)
(* returned the router returns the child's state as it is: no field added,  *)
(* changed or removed.                                                      *)
C17_RouterTransparent ==
    \A t \in active : \A who \in Routers :
        KnownKeyEntry(log[t], who)
        => LET child == StageOf(RoutedChild(log[t], who))
           IN  /\ Count(log[t], "call", who) = 1
               /\ EventInfo(log[t], "call", who) = W(RoutedChild(log[t], who))
               /\ Count(log[t], "enter", child) <= 1
               /\ (Ended(log[t], child) /\ Ended(log[t], who))
                  => /\ Returned(log[t], child)
                     /\ Returned(log[t], who)
                     /\ ReturnState(log[t], who) = ReturnState(log[t], child)

\* InsuranceAgent, entered with "MEDICAID", returned what the Medicaid
\* specialist returned, which is what the portal agent returned
C17_Witness ==
    \E t \in active :
        /\ KnownKeyEntry(log[t], "insurance")
        /\ EnterState(log[t], "insurance").insurance_type = W("MEDICAID")
        /\ Returned(log[t], "mohealthnet")
        /\ Returned(log[t], "medicaid")
        /\ Returned(log[t], "insurance")
        /\ ReturnState(log[t], "insurance") = ReturnState(log[t], "medicaid")
        /\ ReturnState(log[t], "medicaid") = ReturnState(log[t], "mohealthnet")
        /\ ReturnState(log[t], "insurance") # EnterState(log[t], "insurance")

-----------------------------------------------------------------------------
(* C18 *)

\* spellings of routing keys; two are the same key in another letter case
\* when str.lower() maps them to the same text
KeyAtoms == {"search", "Search", "SEARCH", "self", "Self", "insurance", "billing",
             "medicaid", "Medicaid", "MEDICAID", "aetna", "Aetna",
             "mohealthnet", "MoHealthNet", "MOHEALTHNET", "availity", "Availity"}

CaseVariants(key) == { <<a>> : a \in {b \in KeyAtoms : LowerAtom(b) = LowerAtom(key[1])} }

\* what a stage's outcome selects: the child it calls, or none
Selection(o) == IF o.kind = "call" THEN o.child ELSE o.kind

RouterSelection(who, state) ==
    IF who = "insurance"
    THEN Selection(InsuranceRoute(state, registry.specialists))
    ELSE Selection(MedicaidExecute(state, registry.portal_agents))

KeyField(who) == IF who = "insurance" THEN "insurance_type" ELSE "portal_name"

DefaultChild(who) ==
    IF who = "insurance" THEN registry.specialists[<<"medicaid">>]
    ELSE registry.portal_agents[<<"mohealthnet">>]

\* what the router did select in this run
Selected(h, who) == IF Has(h, "call", who) THEN EventInfo(h, "call", who).val[1] ELSE "return"

WithAgent(plan, key) == Dict([plan.val EXCEPT !.agent = Txt(key)])

SupervisorSelection(state, plan) ==
    Selection(SupervisorDispatch(state, [raised |-> FALSE, e |-> NoExc, plan |-> plan],
                                 registry.available_agents))

(* C18: the routing key is matched without regard to letter case and is     *)
(* defaulted.  A router entered with key k does what it does for every      *)
(* other spelling of k (same child called, or unknown for all of them); the *)
(* supervisor does for plan.agent k what it does for every other spelling   *)
(* of k; a router entered without the routing field calls the default       *)
(* child (medicaid, mohealthnet).                                           *)
C18_CaseInsensitiveDefaulted ==
    \A t \in active :
        /\ \A who \in Routers :
              (Has(log[t], "return", who) \/ Has(log[t], "call", who))
              => LET s == EnterState(log[t], who)
                     k == s[KeyField(who)]
                 IN  /\ IsText(k)
                        => \A v \in CaseVariants(k.val) :
                              /\ RouterSelection(who, Set(s, KeyField(who), Txt(v)))
                                     = Selected(log[t], who)
                              /\ RouterSelection(who, Set(s, KeyField(who), Txt(v)))
                                     = RouterSelection(who, s)
                     /\ k = Absent
                        => /\ Selected(log[t], who) = DefaultChild(who)
                           /\ RouterSelection(who, s) = DefaultChild(who)
        /\ (PlanHasAgentName(log[t])
               /\ ReturnedPlan(log[t]).val.agent.kind = "text"
               /\ Len(ReturnedPlan(log[t]).val.agent.val) = 1)
           => LET s == EnterState(log[t], "supervisor")
                  plan == ReturnedPlan(log[t])
              IN  \A v \in CaseVariants(plan.val.agent.val) :
                     /\ SupervisorSelection(s, WithAgent(plan, v)) = SupervisorSelection(s, plan)
                     /\ SupervisorSelection(s, plan) = Selected(log[t], "supervisor")

\* InsuranceAgent was entered with "MEDICAID" and without portal_name, and
\* the portal agent registered under "mohealthnet" was entered
C18_Witness ==
    \E t \in active :
        /\ Entered(log[t], "insurance")
        /\ EnterState(log[t], "insurance").insurance_type = W("MEDICAID")
        /\ EnterState(log[t], "insurance").portal_name = Absent
        /\ Selected(log[t], "insurance") = "med"
        /\ Entered(log[t], "medicaid")
        /\ Selected(log[t], "medicaid") = "mo"
        /\ Entered(log[t], "mohealthnet")

-----------------------------------------------------------------------------
(* C19: the error message a router writes for an unknown routing key names  *)
(* every key of that router's registry, and the invalid key.                *)
C19_ErrorEnumeratesKeys ==
    \A t \in active : \A who \in Routers :
        (UnknownKeyEntry(log[t], who) /\ Returned(log[t], who))
        => LET error == ReturnState(log[t], who).error
           IN  /\ NonEmptyText(error)
               /\ \A a \in 1..Len(RoutingKey(who, EnterState(log[t], who))) :
                     Contains(error.val, RoutingKey(who, EnterState(log[t], who))[a])
               /\ \A key \in DOMAIN RegistryOf(who) :
                     \A a \in 1..Len(key) : Contains(error.val, key[a])

-----------------------------------------------------------------------------
-----------------------------------------------------------------------------
(* C21 *)

\* the query as the claim reads it: the name text before the marker and the
\* dob text after it
NameText(q) == SubSeq(q, 1, FirstIndex(q, Marker) - 1)
DobText(q) == SubSeq(q, FirstIndex(q, Marker) + 1, Len(q))

\* the state InsuranceAgent hands to the specialist or returns: the one of
\* its first event after its entry
AfterParse(h) == h[EnterIdx(h, "insurance") + 1].st

(* C21: for every query "<name text> DOB: <dob text>" with at least one     *)
(* token before the marker, InsuranceAgent sets patient_info to exactly     *)
(* first_name: the first token of the name text, last_name: its last token  *)
(* (middle tokens are ignored, a single token is both), dob: the dob text   *)
(* with the whitespace around it stripped.                                  *)
C21_PatientInfoTokens ==
    \A t \in active :
        (Entered(log[t], "insurance") /\ Contains(EntryQuery(log[t], "insurance"), Marker)
            /\ Split(NameText(EntryQuery(log[t], "insurance"))) # <<>>)
        => LET q == EntryQuery(log[t], "insurance")
               tokens == Split(NameText(q))
           IN  /\ log[t][EnterIdx(log[t], "insurance") + 1].ev \in {"call", "return"}
               /\ AfterParse(log[t]).patient_info
                     = Dict([first_name |-> Txt(tokens[1]),
                             last_name |-> Txt(tokens[Len(tokens)]),
                             dob |-> Txt(Strip(DobText(q)))])
               /\ Returned(log[t], "insurance")
                  => ReturnState(log[t], "insurance").patient_info = AfterParse(log[t]).patient_info

\* "Mary Ann  Smith DOB:  Jan 1990 " went down to the portal handler as
\* Mary, Smith, "Jan 1990"
C21_Witness ==
    \E t \in active :
        /\ Entered(log[t], "insurance")
        /\ Entered(log[t], "mohealthnet")
        /\ EnterState(log[t], "insurance").query = Txt(MiddleNameQuery)
        /\ EnterState(log[t], "mohealthnet").patient_info
              = Dict([first_name |-> W("Mary"), last_name |-> W("Smith"),
                      dob |-> Txt(<<"Jan", Space, "1990">>)])

-----------------------------------------------------------------------------
(* C22: a query in which no name token precedes the "DOB:" marker (such as  *)
(* "DOB: none provided") is handled without an exception:                   *)
(* InsuranceAgent.execute does not raise, it returns a state, and with a    *)
(* registered insurance type it calls the selected specialist, so that the  *)
(* handler runs without structured identifiers.                             *)
C22_NoNameTokenHandled ==
    \A t \in active :
        (Entered(log[t], "insurance") /\ Contains(EntryQuery(log[t], "insurance"), Marker)
            /\ Split(NameText(EntryQuery(log[t], "insurance"))) = <<>>)
        => /\ ~Has(log[t], "raise", "insurance")
           /\ RoutingKey("insurance", EnterState(log[t], "insurance"))
                  \in DOMAIN registry.specialists
              => Has(log[t], "call", "insurance")

-----------------------------------------------------------------------------
(* C23 *)

\* patient_info as `if patient_info:` sees it
NoPatientInfo(state) ==
    state.patient_info \in {Absent, None, Dict(<<>>)}

SetCredentialsFailed(h) ==
    \E i \in 1..Len(h) : h[i].ev = "fault" /\ h[i].who = "set_credentials"

(* C23: for every query without the "DOB:" marker InsuranceAgent does not   *)
(* write patient_info (absent stays absent, a value the state came with is  *)
(* kept, at every later point of the run), and with a registered type it    *)
(* calls the specialist; MoHealthNetAgent looks the credentials up whatever *)
(* patient_info is, and once the credentials are set it logs a warning when *)
(* patient_info is absent or empty (and only then) and calls                *)
(* execute_command in either case.                                          *)
C23_NoMarkerNoPatientInfo ==
    \A t \in active :
        /\ (Entered(log[t], "insurance") /\ ~Contains(EntryQuery(log[t], "insurance"), Marker))
           => /\ \A i \in EnterIdx(log[t], "insurance")..Len(log[t]) :
                    log[t][i].st.patient_info = EnterState(log[t], "insurance").patient_info
              /\ st[t].patient_info = EnterState(log[t], "insurance").patient_info
              /\ ~Has(log[t], "raise", "insurance")
              /\ RoutingKey("insurance", EnterState(log[t], "insurance"))
                     \in DOMAIN registry.specialists
                 => Has(log[t], "call", "insurance")
        /\ Entered(log[t], "mohealthnet")
           => /\ Has(log[t], "get_credentials", "mohealthnet")
              /\ (Ended(log[t], "mohealthnet") /\ ~CredentialsMissing(log[t])
                     /\ ~SetCredentialsFailed(log[t]))
                 => /\ Count(log[t], "call", "mohealthnet") = 1
                    /\ Has(log[t], "warning", "mohealthnet")
                          <=> NoPatientInfo(EnterState(log[t], "mohealthnet"))
                    /\ ~Contains(ReturnState(log[t], "mohealthnet").error.val,
                                 "No patient information provided")

\* "check eligibility" came in with no patient_info; the portal handler
\* logged the warning and called execute_command
C23_Witness ==
    \E t \in active :
        /\ Entered(log[t], "insurance")
        /\ EnterState(log[t], "insurance").query = Txt(NoMarkerQuery)
        /\ EnterState(log[t], "insurance").patient_info = Absent
        /\ Entered(log[t], "mohealthnet")
        /\ EnterState(log[t], "mohealthnet").patient_info = Absent
        /\ Has(log[t], "warning", "mohealthnet")
        /\ Has(log[t], "call", "mohealthnet")

-----------------------------------------------------------------------------
(* C24, C25: the per-line parse and fold step *)

\* the line decodes to a JSON object once the prefix is stripped
DecodesToObject(line) ==
    JsonLoads(Replace(line)).ok /\ JsonLoads(Replace(line)).value.kind = "dict"

(* C24: for every line that does not decode to a JSON object after prefix   *)
(* stripping (plain text, truncated JSON, and JSON that is a number, a      *)
(* string, a list or null), the handler's per-line step raises nothing,     *)
(* adds nothing to the result buffer and leaves the task state unchanged.   *)
C24_TolerantParse ==
    \A t \in active : \A i \in 1..Len(log[t]) :
        (log[t][i].ev = "fold" /\ ~DecodesToObject(log[t][i].info.val))
        => /\ i < Len(log[t])
           /\ log[t][i + 1].ev = "folded"
           /\ log[t][i + 1].st = log[t][i].st

(* C25: for every line made of the "data: " prefix and a JSON object with   *)
(* message m and optional type t, the step's parsed message is m exactly    *)
(* (also when m contains the text "data: ") and its event type is t in      *)
(* lower case, or "info" when t is absent.                                  *)
C25_WellFormedParse ==
    \A t \in active : \A i \in 1..Len(log[t]) :
        \A m \in FoldMessages, ty \in FoldTypes :
            (log[t][i].ev = "fold" /\ log[t][i].info.val = DataLine(m, ty))
            => /\ i < Len(log[t])
               /\ log[t][i + 1].ev = "emit"
               /\ log[t][i + 1].info.val.message = Txt(m)
               /\ log[t][i + 1].info.val.type
                     = (IF ty = "" THEN W("info") ELSE Txt(Lower(<<ty>>)))

-----------------------------------------------------------------------------
(* C26: when two task invocations run interleaved through the same agents,  *)
(* a step of one task writes no field of the other task's state (nor its    *)
(* position, its call or its history), and no step adds, removes or         *)
(* replaces an entry of a handler registry.                                 *)
C26_Isolation ==
    [][ /\ registry' = registry
        /\ \A t \in Tasks : \A u \in Tasks \ {t} :
              log'[t] # log[t]
              => /\ st'[u] = st[u]
                 /\ pc'[u] = pc[u]
                 /\ cl'[u] = cl[u]
                 /\ log'[u] = log[u] ]_vars

\* both tasks are in the middle of the chain, one in the portal handler and
\* one in the search handler, each with its own plan and query in its state
C26_Witness ==
    /\ active = {1, 2}
    /\ pc[1] = "mo_set"
    /\ pc[2] = "srch_after"
    /\ st[1].plan # st[2].plan
    /\ st[1].query = Txt(JaneDoeQuery)
    /\ st[2].query = W("cats")
    /\ st[1].patient_info.kind = "dict"
    /\ st[2].patient_info = Absent
    /\ registry = Registries

-----------------------------------------------------------------------------
(* C27: completion depends on stream exhaustion only.  In the client, no    *)
(* content of a line that decodes stops the read loop: a call that ended    *)
(* without transport failure has read every line of the body and returned.  *)
(* In a handler, nothing but a credential or transport failure keeps the    *)
(* stage from its success path: it returns with its result field written    *)
(* from the client's buffer and with error as it was on entry.              *)
C27_CompletionByExhaustion ==
    \A t \in active :
        /\ (Ended(log[t], "client") /\ Entered(log[t], "client")
               /\ ~TransportFailed(log[t]) /\ ~StreamAborted(log[t]))
           => /\ Has(log[t], "return", "client")
              /\ Count(log[t], "line", "client") = Len(cl[t].body)
        /\ \A who \in Handlers :
              (Returned(log[t], who) /\ ~CredentialsMissing(log[t]) /\ ~TransportFailed(log[t]))
              => /\ ReturnState(log[t], who).error = EnterState(log[t], who).error
                 /\ IsText(ReturnState(log[t], who)[ResultField(who)])
                 /\ Count(log[t], "request", "execute_task") = 1

-----------------------------------------------------------------------------
(* C28 *)

Indices(h, ev, who) == {i \in 1..Len(h) : h[i].ev = ev /\ h[i].who = who}

\* the environment lacks the user name or the password of the portal
CredentialsNotConfigured == ~Truthy(config.username) \/ ~Truthy(config.password)

(* C28: in MoHealthNetAgent.execute get_credentials comes before            *)
(* set_credentials, which comes before execute_command, each at most once.  *)
(* When the credentials are not configured no request of any kind is sent;  *)
(* when set_credentials fails no command is sent; in both cases the stage   *)
(* returns with state.error set and nothing is tried again.                 *)
C28_CredentialOrdering ==
    \A t \in active :
        Entered(log[t], "mohealthnet")
        => LET h == log[t]
               gets == Indices(h, "get_credentials", "mohealthnet")
               sets == Indices(h, "request", "set_credentials")
               cmds == Indices(h, "call", "mohealthnet")
           IN  /\ Cardinality(gets) = 1
               /\ Cardinality(sets) <= 1
               /\ Cardinality(cmds) <= 1
               /\ \A g \in gets, s \in sets : g < s
               /\ \A s \in sets, c \in cmds : s < c
               /\ cmds # {} => sets # {}
               /\ CredentialsNotConfigured
                  => /\ CountEv(h, "request") = 0
                     /\ cmds = {}
                     /\ Returned(h, "mohealthnet")
                     /\ NonEmptyText(ReturnState(h, "mohealthnet").error)
                     /\ h[EndIdx(h, "mohealthnet") - 1].ev = "catch"
               /\ SetCredentialsFailed(h)
                  => /\ cmds = {}
                     /\ Count(h, "request", "execute_task") = 0
                     /\ Cardinality(sets) = 1
                     /\ Returned(h, "mohealthnet")
                     /\ NonEmptyText(ReturnState(h, "mohealthnet").error)

\* the credentials were found, set_credentials was refused by the backend,
\* and the handler returned with the cause in error and no command sent
C28_Witness ==
    \E t \in active :
        /\ Returned(log[t], "mohealthnet")
        /\ ~CredentialsMissing(log[t])
        /\ SetCredentialsFailed(log[t])
        /\ ~Has(log[t], "call", "mohealthnet")
        /\ Contains(ReturnState(log[t], "mohealthnet").error.val, "Connection refused")

-----------------------------------------------------------------------------
(* C29: the order of the workflow's nodes *)

HasIds(state) == NonEmptyText(state.transaction_id) /\ NonEmptyText(state.timestamp)

\* the nodes that ran are in the order start, execute, end, each at most
\* once, the supervisor is entered at most once, inside the execute node and
\* with both ids in its state, and the end node returns the state it got
NodesInOrder(h) ==
    /\ Count(h, "enter", "node_start") <= 1
    /\ Count(h, "enter", "node_execute") <= 1
    /\ Count(h, "enter", "node_end") <= 1
    /\ Count(h, "enter", "supervisor") <= 1
    /\ Entered(h, "node_execute")
       => /\ Returned(h, "node_start")
          /\ EndIdx(h, "node_start") < EnterIdx(h, "node_execute")
    /\ Entered(h, "supervisor")
       => /\ Entered(h, "node_execute")
          /\ EnterIdx(h, "node_execute") < EnterIdx(h, "supervisor")
          /\ HasIds(EnterState(h, "supervisor"))
    /\ Entered(h, "node_end")
       => /\ Returned(h, "node_execute")
          /\ Returned(h, "supervisor")
          /\ EndIdx(h, "supervisor") < EndIdx(h, "node_execute")
          /\ EndIdx(h, "node_execute") < EnterIdx(h, "node_end")
          /\ Returned(h, "node_end")
          /\ ReturnState(h, "node_end") = EnterState(h, "node_end")
          /\ ReturnState(h, "node_end") = ReturnState(h, "supervisor")

-----------------------------------------------------------------------------
(* C30: termination of the chain *)

StageNames == {"supervisor", "insurance", "medicaid", "mohealthnet", "search"}

Chains == { <<"supervisor", "insurance", "medicaid", "mohealthnet">>,
            <<"supervisor", "search">> }

IsStageEnter(e) == e.ev = "enter" /\ e.who \in StageNames

\* the stages a task entered, in the order it entered them
EnterSeq(h) == LET es == SelectSeq(h, IsStageEnter) IN [i \in 1..Len(es) |-> es[i].who]

IsSegment(s, c) == \E i \in 1..(Len(c) + 1), j \in 0..Len(c) : s = SubSeq(c, i, j)

\* the stages entered follow one of the two chains without a repetition, and
\* no more calls are open than the longest chain has stages
ChainBounded ==
    \A t \in active :
        /\ \E c \in Chains : IsSegment(EnterSeq(log[t]), c)
        /\ \A w \in StageNames : Count(log[t], "enter", w) <= 1
        /\ Len(stack[t]) <= 5

Finished(t) == pc[t] \in {"done", "raised"}

SupervisorRaiseKinds == {"APIConnectionError", "AttributeError", "IndexError"}

\* the supervisor's execute is over for every task that entered it
SupervisorEnded == \A t \in active : Entered(log[t], "supervisor") => Ended(log[t], "supervisor")

\* it returned for every task whose planner call returned
SupervisorReturned ==
    \A t \in active : Has(log[t], "model", "supervisor") => Returned(log[t], "supervisor")

AllFinished == \A t \in active : Finished(t)

====
